---------------------------- MODULE Spec2Model ----------------------------
(***************************************************************************)
(* Progressive rollout control plane of strengthlog v2:                    *)
(*   RolloutManager  (src/unnamed/part_002)                                *)
(*   ABTestManager   (src/unnamed/part_003)                                *)
(*                                                                         *)
(* JavaScript runs one synchronous segment at a time; handlers interleave  *)
(* only at their await points.  Every action below is one synchronous      *)
(* segment of a handler, followed by those later segments of the same      *)
(* handler that only persist, log, notify or write the experiment table    *)
(* (nothing another rollout handler reads).  The segments that read the    *)
(* plan again after an await are actions of their own: the continuation of *)
(* startRollout, of evaluatePhaseTransition and of checkActiveRollouts.    *)
(*                                                                         *)
(* Rates are in per-mille, latency in milliseconds, percentages in         *)
(* percent.  Timestamps, names, reasons and the copy of the live metrics   *)
(* that checkActiveRollouts keeps in plan.metrics are left out: no handler *)
(* branches on them.                                                       *)
(*                                                                         *)
(* createRolloutABTest files the mirrored experiment under the id that     *)
(* ABTestManager.generateId returns and then starts and stops it under     *)
(* `rollout-<plan id>`.  An engine constructed over an empty store (Spec)  *)
(* therefore never finds it.  SpecStore adds the engine constructed over a *)
(* store in which an experiment with that id is on file, the only way the  *)
(* phase machinery behind createRolloutABTest comes to run.                *)
(***************************************************************************)
EXTENDS Integers, Sequences, FiniteSets, TLC

\* ------------------------------------------------------------------ bounds
MaxPlans == 2
MaxFlags == 1
MaxTests == 2
MaxRollbacks == 2
MaxLog == 3
MaxInFlight == 1
MaxEvents == 2
MaxSamples == 2
MaxHashCalls == 2
HashPopulation == 40
Population == 10000

PlanIds == 1..MaxPlans
FlagIds == 1..MaxFlags
NoFlag == 0
PhaseIdx == 0..2

\* ------------------------------------------------------------ configuration
\* PhaseCriteria shared by the phases of the modelled plans.
Criteria ==
  [minSuccessRate |-> 950, maxErrorRate |-> 50, maxLatencyIncrease |-> 500,
   minUserSatisfaction |-> 0]

\* RollbackCondition list of the modelled plans.
RollbackConditions ==
  << [metric |-> "errorRate", threshold |-> 50, operator |-> "gt", duration |-> 5,
      severity |-> "critical"],
     [metric |-> "latency", threshold |-> 130, operator |-> "gt", duration |-> 5,
      severity |-> "critical"],
     [metric |-> "errorRate", threshold |-> 20, operator |-> "gt", duration |-> 5,
      severity |-> "warning"] >>

\* Phase percentage lists offered to createRolloutPlan.
PhaseLists == { <<10, 25, 100>>, << >> }

\* Metric snapshots the metrics provider may return.
MetricSamples ==
  { [successRate |-> 990, errorRate |-> 10,  latency |-> 120, userSatisfaction |-> 45],
    [successRate |-> 990, errorRate |-> 30,  latency |-> 120, userSatisfaction |-> 45],
    [successRate |-> 990, errorRate |-> 10,  latency |-> 140, userSatisfaction |-> 45],
    [successRate |-> 900, errorRate |-> 10,  latency |-> 120, userSatisfaction |-> 45],
    [successRate |-> 900, errorRate |-> 100, latency |-> 120, userSatisfaction |-> 45] }

\* The identities an engine is constructed with and the names of the flags.
UserIds == {"eve", "kim"}

FlagName(f) == CASE f = 1 -> "f1" [] f = 2 -> "f2" [] OTHER -> "f3"

\* str.charCodeAt(i) for the strings that are hashed.
CodeUnits(str) ==
  CASE str = "eve" -> <<101, 118, 101>>
    [] str = "kim" -> <<107, 105, 109>>
    [] str = "f1" -> <<102, 49>>
    [] str = "f2" -> <<102, 50>>
    [] str = "f3" -> <<102, 51>>
    [] str = "s"  -> <<115>>
    [] OTHER -> << >>

\* The user ids of a population: 'u0000', 'u0001', ...  DigitsId(n) is the
\* sequence of the code units of the n-th.
DigitsId(n) ==
  <<117, 48 + ((n \div 1000) % 10), 48 + ((n \div 100) % 10), 48 + ((n \div 10) % 10),
    48 + (n % 10)>>

\* The code units of 'GydZG_', a user id whose accumulator ends at -2^31.
MinIntId == <<71, 121, 100, 90, 71, 95>>

\* The user ids and the seeds (salts) the cohort hash is applied to.
HashIdentities ==
  {DigitsId(n) : n \in 0..(HashPopulation - 1)}
    \cup {MinIntId, <<101, 118, 101>>, <<107, 105, 109>>}

HashSeeds == {"", "s"}

\* Variant weights of the experiments the population is assigned to.
WeightTables == { <<50, 50>>, <<10, 90>>, <<100, 0>>, <<0, 100>> }

\* Context values carry their JavaScript type: === and typeof depend on it.
Str(x) == [type |-> "string", s |-> x, n |-> 0]

Num(x) == [type |-> "number", s |-> "", n |-> x]

Arr(S) == [type |-> "array", items |-> S]

Undefined == [type |-> "undefined", s |-> "", n |-> 0]

Attributes == {"userId", "platform", "version", "locale", "level"}

\* The userContext arguments offered to isFeatureEnabled and getFeatureVariant:
\* none, one that overrides a base attribute, one that adds a numeric attribute.
UserContexts ==
  { [a \in {} |-> Undefined],
    [a \in {"platform"} |-> Str("ios")],
    [a \in {"level"} |-> Num(7)] }

\* Flags offered to createFeatureFlag by the callers of the flag evaluator.
FlagAudiences == { << >>, <<"beta">>, <<"staff">> }

FlagConditionLists ==
  { << >>,
    << [attribute |-> "platform", operator |-> "eq", value |-> Str("web")] >>,
    << [attribute |-> "level", operator |-> "gt", value |-> Num(5)],
       [attribute |-> "locale", operator |-> "in", value |-> Arr({Str("en-US"), Str("de-DE")})] >>,
    << [attribute |-> "platform", operator |-> "ne", value |-> Str("ios")],
       [attribute |-> "locale", operator |-> "not_in", value |-> Arr({Str("de-DE")})],
       [attribute |-> "level", operator |-> "lt", value |-> Num(9)] >> }

FlagVariantLists ==
  { << [id |-> "a", weight |-> 50], [id |-> "b", weight |-> 50] >>,
    << [id |-> "a", weight |-> 10], [id |-> "b", weight |-> 90] >> }

\* A flag as the rollout tests create it: no audiences, conditions or variants.
PlainFlag(enabled, pct) ==
  [enabled |-> enabled, rolloutPercentage |-> pct, targetAudiences |-> << >>,
   conditions |-> << >>, hasVariants |-> FALSE, variants |-> << >>]

FlagConfigs ==
  { PlainFlag(en, pct) : en \in BOOLEAN, pct \in {0, 50, 100} }
  \cup { [PlainFlag(TRUE, pct) EXCEPT !.targetAudiences = au, !.conditions = co]
           : pct \in {0, 100}, au \in FlagAudiences, co \in FlagConditionLists }
  \cup { [PlainFlag(en, pct) EXCEPT !.hasVariants = TRUE, !.variants = va]
           : en \in BOOLEAN, pct \in {0, 50, 100}, va \in FlagVariantLists }

\* Values of Math.random() * 100 (percent) drawn by the percentage gates.
Rolls == {0, 40, 90}

\* Hours since the experiment's startDate at a gradual assignment.
Hours == {0, 48}

\* The ids of an experiment's variants, in the order of its variant table.
VariantIds == <<"control", "treatment", "treatment2">>

NoGradual == [initialPercentage |-> 0, incrementPercentage |-> 0,
              incrementInterval |-> 1, maxPercentage |-> 0]

\* An experiment configuration: the variant weights, the index of the variant
\* marked isControl (0: none), the allocation and the target audience ("" is a
\* criterion that is not set).
TestConfig(weights, type, seed, percentage) ==
  [weights |-> weights, control |-> 1,
   allocation |-> [type |-> type, seed |-> seed, hasGradual |-> type = "gradual",
                   gradualRollout |->
                     IF type = "gradual"
                     THEN [initialPercentage |-> 10, incrementPercentage |-> 10,
                           incrementInterval |-> 24, maxPercentage |-> 100]
                     ELSE NoGradual],
   targetAudience |-> [percentage |-> percentage,
                       criteria |-> [userType |-> "", experience |-> "", platform |-> ""]],
   primaryMetric |-> "conversion"]

\* Configurations offered to createTest by the callers of the experiment side.
TestConfigs ==
  { TestConfig(<<50, 50>>, "random", "", 100),
    TestConfig(<<50, 50>>, "deterministic", "", 100),
    TestConfig(<<50, 50>>, "deterministic", "s", 50),
    TestConfig(<<10, 90>>, "gradual", "", 100),
    TestConfig(<<60, 60>>, "random", "", 100) }

\* Configurations with one or two variants, with and without a control
\* variant, and with weights that do not sum to 100.
ResultConfig(weights, control) ==
  [TestConfig(weights, "random", "", 100) EXCEPT !.control = control]

ResultConfigs ==
  { ResultConfig(<<50, 50>>, 1), ResultConfig(<<50, 50>>, 0),
    ResultConfig(<<100>>, 1), ResultConfig(<<100>>, 0),
    ResultConfig(<<50, 49>>, 1), ResultConfig(<<60, 60>>, 1), ResultConfig(<<90>>, 1) }

\* Gradual configurations: a ramp that reaches its maximum late, one that
\* reaches it after one interval and whose control variant is the second, and
\* one that starts above its maximum.
GradualConfig(weights, control, initial, increment, interval, max) ==
  [TestConfig(weights, "gradual", "", 100) EXCEPT
     !.control = control,
     !.allocation.gradualRollout =
        [initialPercentage |-> initial, incrementPercentage |-> increment,
         incrementInterval |-> interval, maxPercentage |-> max]]

GradualConfigs ==
  { GradualConfig(<<50, 50>>, 1, 10, 10, 24, 100),
    GradualConfig(<<50, 50>>, 2, 20, 30, 12, 50),
    GradualConfig(<<10, 90>>, 1, 60, 0, 1, 40) }

\* Hours since the startDate, and values of Math.random() * 100, at a gradual
\* assignment.
GradualHours == {0, 12, 30, 240}

GradualRolls == {0, 15, 45, 90}

\* Configurations with a control variant and two others.
ThreeWayConfigs == { ResultConfig(<<34, 33, 33>>, 1), ResultConfig(<<33, 34, 33>>, 2) }

\* The configuration createRolloutABTest builds for a plan whose first phase
\* is at pct percent (plans are created with strategy.targetAudience 'all').
MirrorConfig(pct) ==
  [weights |-> <<100 - pct, pct>>, control |-> 1,
   allocation |-> [type |-> "gradual", seed |-> "", hasGradual |-> TRUE,
                   gradualRollout |->
                     [initialPercentage |-> pct, incrementPercentage |-> 10,
                      incrementInterval |-> 24, maxPercentage |-> 100]],
   targetAudience |-> [percentage |-> 100,
                       criteria |-> [userType |-> "all", experience |-> "", platform |-> ""]],
   primaryMetric |-> "conversion"]

\* The kinds of event offered to trackEvent.
EventTypes == {"conversion"}

\* eventValue is optional: NoValue stands for an argument that is not given.
NoValue == -1

EventValues == {NoValue, 5}

\* The event values of a variant's conversion events, as the results
\* computation is applied to them: up to MaxSamples values per variant.
SampleValues == {NoValue, 5, 6}

ValueLists == UNION {[1..n -> SampleValues] : n \in 0..MaxSamples}

\* -------------------------------------------------------------------- state
VARIABLES
  activeRollouts,   \* RolloutManager.activeRollouts : id -> RolloutPlan
  featureFlags,     \* RolloutManager.featureFlags   : id -> FeatureFlag
  activeTests,      \* ABTestManager.activeTests     : id -> status
  timers,           \* armed setTimeout callbacks of transitionToPhase
  stored,           \* localStorage: the status in the record `rollout-<id>` of each plan
  evals,            \* evaluatePhaseTransition calls awaiting getCurrentMetrics
  polls,            \* checkActiveRollouts iterations awaiting getCurrentMetrics
  starts,           \* startRollout calls awaiting createRolloutABTest
  userId,           \* the identity both managers were constructed with
  userAssignments,  \* ABTestManager.userAssignments.get(userId) : UserAssignment[]
  testEvents,       \* ABTestManager.testEvents : ABTestEvent[]
  answers,          \* history: what getAssignment has returned, per experiment
  tally,            \* history: the variants a population of users was assigned
  checks,           \* checkSafeguards calls awaiting getCurrentMetrics, per experiment
  last              \* history: the handler segment that ran last and how it ended

vars == <<activeRollouts, featureFlags, activeTests, timers, stored, evals, polls, starts,
          userId, userAssignments, testEvents, answers, tally, checks, last>>

\* The state of the experiment side that no rollout handler touches.
abVars == <<userId, userAssignments, testEvents, answers, tally, checks>>

\* Ids of ABTestManager.generateId and the id startRollout looks the mirror up by.
GenTestId(n) == <<"gen", n>>
RolloutTestId(p) == <<"rollout", p>>

\* The mutable state the handlers of both managers share, plus the exception flag.
World ==
  [rollouts |-> activeRollouts, flags |-> featureFlags, tests |-> activeTests,
   timers |-> timers, stored |-> stored, events |-> testEvents, threw |-> FALSE]

Throw(w) == [w EXCEPT !.threw = TRUE]

\* ------------------------------------------------------- pure helper methods
Phases(pcts) == [k \in 1..Len(pcts) |-> [percentage |-> pcts[k], criteria |-> Criteria]]

evaluatePhaseCriteria(criteria, metrics) ==
  IF metrics.successRate < criteria.minSuccessRate THEN FALSE
  ELSE IF metrics.errorRate > criteria.maxErrorRate THEN FALSE
  ELSE IF metrics.latency > criteria.maxLatencyIncrease THEN FALSE
  ELSE IF criteria.minUserSatisfaction # 0
          /\ metrics.userSatisfaction < criteria.minUserSatisfaction THEN FALSE
  ELSE TRUE

\* evaluateRollbackCondition whose switch has no case for 'gt'.
evaluateRollbackCondition_noGt(condition, metrics) ==
  LET value == metrics[condition.metric] IN
  CASE condition.operator = "lt" -> value < condition.threshold
    [] condition.operator = "eq" -> value = condition.threshold
    [] OTHER -> FALSE

evaluateRollbackCondition(condition, metrics) ==
  LET value == metrics[condition.metric] IN
  CASE condition.operator = "gt" -> value > condition.threshold
    [] condition.operator = "lt" -> value < condition.threshold
    [] condition.operator = "eq" -> value = condition.threshold
    [] OTHER -> FALSE

shouldTriggerRollback(plan, metrics) ==
  \E k \in 1..Len(plan.rollbackConditions) :
     /\ plan.rollbackConditions[k].severity = "critical"
     /\ evaluateRollbackCondition(plan.rollbackConditions[k], metrics)

\* simpleHash (both managers): hash = ((hash << 5) - hash) + char, cut to a
\* signed 32-bit integer after every character, then Math.abs.  The 32-bit
\* accumulator is kept as two 16-bit limbs <<high, low>> of its two's
\* complement, so that the wrap-around is computed without leaving the integers
\* the model checker has.
HashStep(h, char) ==
  LET low == 31 * h[2] + char
  IN << (31 * h[1] + low \div 65536) % 65536, low % 65536 >>

RECURSIVE HashFrom(_, _, _)
HashFrom(h, str, i) ==
  IF i > Len(str) THEN h ELSE HashFrom(HashStep(h, str[i]), str, i + 1)

\* Math.abs of the signed value of the limbs; -2^31 becomes 2^31.
AbsLimbs(h) ==
  IF h[1] < 32768 THEN h
  ELSE IF h[2] = 0 THEN << 65536 - h[1], 0 >>
  ELSE << 65535 - h[1], 65536 - h[2] >>

simpleHash(str) == AbsLimbs(HashFrom(<<0, 0>>, str, 1))

\* hash % 10000 of a hash kept as a signed 32-bit integer, whose Math.abs
\* leaves -2^31 negative: the remainder takes the sign of the dividend.
HashMod10000_int32(h) ==
  IF h[1] < 32768 THEN ((h[1] % 10000) * 5536 + h[2]) % 10000
  ELSE 0 - ((((65535 - h[1]) % 10000) * 5536 + (65536 - h[2])) % 10000)

\* hash % 10000, in hundredths of a percent: 65536 % 10000 = 5536.
HashMod10000(h) == ((h[1] % 10000) * 5536 + h[2]) % 10000

\* The walk of a cumulative weight table that the deterministic pick of both
\* managers does: the first entry with percentage <= cumulative, or 0 if none.
RECURSIVE WalkFrom(_, _, _, _)
WalkFrom(weights, k, cumulative, hundredths) ==
  IF k > Len(weights) THEN 0
  ELSE IF hundredths <= (cumulative + weights[k]) * 100 THEN k
  ELSE WalkFrom(weights, k + 1, cumulative + weights[k], hundredths)

\* ------------------------------------------------- RolloutManager: the flags
getUserAudiences == {"beta", "desktop"}

\* { ...this.getUserContext(), ...userContext }
MergedContext(uid, userContext) ==
  [a \in Attributes |->
     IF a \in DOMAIN userContext THEN userContext[a]
     ELSE CASE a = "userId" -> Str(uid)
            [] a = "platform" -> Str("web")
            [] a = "version" -> Str("2.0.0")
            [] a = "locale" -> Str("en-US")
            [] OTHER -> Undefined]

evaluateCondition(condition, context) ==
  LET value == IF condition.attribute \in DOMAIN context
               THEN context[condition.attribute] ELSE Undefined
      cv == condition.value
  IN CASE condition.operator = "eq" -> value = cv
       [] condition.operator = "ne" -> value # cv
       [] condition.operator = "in" -> cv.type = "array" /\ value \in cv.items
       [] condition.operator = "not_in" -> cv.type = "array" /\ value \notin cv.items
       [] condition.operator = "gt" ->
            value.type = "number" /\ cv.type = "number" /\ value.n > cv.n
       [] condition.operator = "lt" ->
            value.type = "number" /\ cv.type = "number" /\ value.n < cv.n
       [] OTHER -> FALSE

\* evaluateConditions with some in place of every: one condition that holds
\* is enough.
evaluateConditions_some(conditions, context) ==
  \E k \in 1..Len(conditions) : evaluateCondition(conditions[k], context)

evaluateConditions(conditions, context) ==
  \A k \in 1..Len(conditions) : evaluateCondition(conditions[k], context)

\* isFeatureEnabled whose audience gate lacks the length check: a flag with
\* no target audiences matches no audience.
isFeatureEnabled_emptyAudienceFails(flags, uid, f, userContext, roll) ==
  IF f \notin DOMAIN flags THEN FALSE
  ELSE LET flag == flags[f] IN
       IF ~flag.enabled THEN FALSE
       ELSE IF roll > flag.rolloutPercentage THEN FALSE
       ELSE IF ~\E k \in 1..Len(flag.targetAudiences) :
                    flag.targetAudiences[k] \in getUserAudiences THEN FALSE
       ELSE IF Len(flag.conditions) > 0
               /\ ~evaluateConditions(flag.conditions, MergedContext(uid, userContext))
            THEN FALSE
       ELSE TRUE

\* isFeatureEnabled, with the value of Math.random() * 100 it draws.  Flags are
\* named after their ids, so the lookup by name finds the flag with that id.
isFeatureEnabled(flags, uid, f, userContext, roll) ==
  IF f \notin DOMAIN flags THEN FALSE
  ELSE LET flag == flags[f] IN
       IF ~flag.enabled THEN FALSE
       ELSE IF roll > flag.rolloutPercentage THEN FALSE
       ELSE IF Len(flag.targetAudiences) > 0
               /\ ~\E k \in 1..Len(flag.targetAudiences) :
                      flag.targetAudiences[k] \in getUserAudiences THEN FALSE
       ELSE IF Len(flag.conditions) > 0
               /\ ~evaluateConditions(flag.conditions, MergedContext(uid, userContext))
            THEN FALSE
       ELSE TRUE

\* getFeatureVariant that picks the variant without asking whether the flag
\* is enabled for the user.
getFeatureVariant_noGate(flags, uid, f, userContext, roll) ==
  IF f \notin DOMAIN flags THEN "null"
  ELSE LET flag == flags[f] IN
       IF ~flag.hasVariants THEN "null"
       ELSE LET hundredths ==
                  HashMod10000(simpleHash(CodeUnits(uid) \o CodeUnits(FlagName(f))))
                k == WalkFrom([i \in 1..Len(flag.variants) |-> flag.variants[i].weight],
                              1, 0, hundredths)
            IN IF k # 0 THEN flag.variants[k].id
               ELSE IF Len(flag.variants) > 0 THEN flag.variants[1].id
               ELSE "null"

\* getFeatureVariant: "null" stands for null.
getFeatureVariant(flags, uid, f, userContext, roll) ==
  IF f \notin DOMAIN flags THEN "null"
  ELSE LET flag == flags[f] IN
       IF ~flag.enabled \/ ~flag.hasVariants THEN "null"
       ELSE IF ~isFeatureEnabled(flags, uid, f, userContext, roll) THEN "null"
       ELSE LET hundredths ==
                  HashMod10000(simpleHash(CodeUnits(uid) \o CodeUnits(FlagName(f))))
                k == WalkFrom([i \in 1..Len(flag.variants) |-> flag.variants[i].weight],
                              1, 0, hundredths)
            IN IF k # 0 THEN flag.variants[k].id
               ELSE IF Len(flag.variants) > 0 THEN flag.variants[1].id
               ELSE "null"

\* ------------------------------------------------------------ ABTestManager
\* variants.reduce((sum, v) => sum + v.weight, 0)
RECURSIVE SumFrom(_, _)
SumFrom(weights, k) ==
  IF k > Len(weights) THEN 0 ELSE weights[k] + SumFrom(weights, k + 1)

\* validateTestConfig: Math.abs(totalWeight - 100) > 0.01 throws.  The weights
\* of the model are whole percents, so the sum is within 0.01 of 100 exactly
\* when it is 100.
validateTestConfig(weights) == SumFrom(weights, 1) = 100

\* generateId: an id no test carries yet.
NextTestNo(w) == Cardinality({t \in DOMAIN w.tests : t[1] = "gen"}) + 1

\* test.results before stopTest has set it.
NoResults ==
  [metrics |-> << >>,
   significance |-> [pValue |-> "undefined", zScore |-> [sign |-> 0, squared |-> <<0, 1>>],
                     significant |-> FALSE],
   recommendation |-> "undefined", winningVariant |-> "undefined"]

\* The test record: testConfig with a status.  monitoringInterval tells whether
\* the record holds the handle of a running setInterval; orphanInterval tells
\* whether a setInterval of this experiment runs whose handle the record lost.
NewTest(testConfig, status) ==
  [status |-> status, weights |-> testConfig.weights, control |-> testConfig.control,
   allocation |-> testConfig.allocation, targetAudience |-> testConfig.targetAudience,
   primaryMetric |-> testConfig.primaryMetric, results |-> NoResults,
   monitoringInterval |-> FALSE, orphanInterval |-> FALSE]

\* createTest that files the experiment without validating it.
createTest_noValidate(w, testConfig) ==
  [w EXCEPT !.tests = @ @@ (GenTestId(NextTestNo(w)) :> NewTest(testConfig, "draft"))]

createTest(w, testConfig) ==
  IF ~validateTestConfig(testConfig.weights) THEN Throw(w)
  ELSE [w EXCEPT !.tests = @ @@ (GenTestId(NextTestNo(w)) :> NewTest(testConfig, "draft"))]

\* startTest: the status is set and startMonitoring creates an interval and
\* overwrites the handle on the record, whether or not one was there.
startTest(w, testId) ==
  IF testId \notin DOMAIN w.tests THEN Throw(w)
  ELSE [w EXCEPT !.tests[testId].status = "active",
                 !.tests[testId].orphanInterval = @ \/ w.tests[testId].monitoringInterval,
                 !.tests[testId].monitoringInterval = TRUE]

\* ---------------------------------------------- ABTestManager: the results
\* Means are kept in twelfths and squared standard errors in 1/144, which is
\* exact for up to four conversion events per variant; the event log is
\* bounded below that.
\* calculateVariantMetrics: the mean and the standard error of e.eventValue || 1
\* over the events whose type is the primary metric.  With no such event the
\* variance is 0 and Math.sqrt(0 / 0) is NaN.
calculateVariantMetrics(events, primaryMetric) ==
  LET conversionEvents == SelectSeq(events, LAMBDA e : e.eventType = primaryMetric)
      values == [k \in 1..Len(conversionEvents) |->
                   IF conversionEvents[k].eventValue \in {NoValue, 0}
                   THEN 1 ELSE conversionEvents[k].eventValue]
      n == Len(values)
      sum == SumFrom(values, 1)
      squares == SumFrom([k \in 1..n |-> values[k] * values[k]], 1)
  IN [averageValue |-> IF n > 0 THEN (12 * sum) \div n ELSE 0,
      standardError |->
        [nan |-> n = 0,
         squared |-> IF n > 1 THEN (144 * (n * squares - sum * sum)) \div (n * n * (n - 1))
                     ELSE 0]]

\* variants.find(v => v.isControl) and variants.find(v => !v.isControl), as
\* indices into the variant table; 0 is undefined.
controlVariant(test) == test.control

testVariant(test) ==
  LET others == {k \in 1..Len(test.weights) : k # test.control}
  IN IF others = {} THEN 0 ELSE CHOOSE k \in others : \A j \in others : k <= j

\* The verdict returned when a side of the comparison is missing.
NeutralVerdict ==
  [pValue |-> "1", zScore |-> [sign |-> 0, squared |-> <<0, 1>>], significant |-> FALSE]

\* performSignificanceTest whose neutral verdict is the wrong constant.
performSignificanceTest_neutralSignificant(metrics, test) ==
  LET c == controlVariant(test)
      t == testVariant(test)
  IN IF c = 0 \/ t = 0
     THEN [pValue |-> "<0.05", zScore |-> [sign |-> 0, squared |-> <<0, 1>>],
           significant |-> TRUE]
     ELSE LET nan == metrics[c].standardError.nan \/ metrics[t].standardError.nan
              pooled == metrics[c].standardError.squared + metrics[t].standardError.squared
              diff == metrics[t].averageValue - metrics[c].averageValue
              zero == nan \/ pooled <= 0
              below == ~zero /\ 10000 * diff * diff > 38415 * pooled
          IN [pValue |-> IF below THEN "<0.05" ELSE ">=0.05",
              zScore |-> IF zero THEN [sign |-> 0, squared |-> <<0, 1>>]
                         ELSE [sign |-> IF diff > 0 THEN 1 ELSE IF diff < 0 THEN -1 ELSE 0,
                               squared |-> <<diff * diff, pooled>>],
              significant |-> below]

\* performSignificanceTest.  zScore is kept as its sign and its square (a
\* fraction); pValue as the side of 0.05 it is on: calculatePValue(|z|) < 0.05
\* exactly when z * z > 3.8415.  "1" is the literal 1 of the neutral verdict
\* (calculatePValue(0) itself is 1 - 1e-9, by the coefficients of erf).  A NaN
\* pooled error fails pooledSE > 0 and gives zScore 0.
performSignificanceTest(metrics, test) ==
  LET c == controlVariant(test)
      t == testVariant(test)
  IN IF c = 0 \/ t = 0 THEN NeutralVerdict
     ELSE LET nan == metrics[c].standardError.nan \/ metrics[t].standardError.nan
              pooled == metrics[c].standardError.squared + metrics[t].standardError.squared
              diff == metrics[t].averageValue - metrics[c].averageValue
              zero == nan \/ pooled <= 0
              below == ~zero /\ 10000 * diff * diff > 38415 * pooled
          IN [pValue |-> IF below THEN "<0.05" ELSE ">=0.05",
              zScore |-> IF zero THEN [sign |-> 0, squared |-> <<0, 1>>]
                         ELSE [sign |-> IF diff > 0 THEN 1 ELSE IF diff < 0 THEN -1 ELSE 0,
                               squared |-> <<diff * diff, pooled>>],
              significant |-> below]

\* generateRecommendation that ranks the control above the treatment.
generateRecommendation_swapped(significance, metrics, test) ==
  LET c == controlVariant(test)
      t == testVariant(test)
  IN IF ~significance.significant THEN "inconclusive"
     ELSE IF c = 0 \/ t = 0 THEN "inconclusive"
     ELSE IF metrics[c].averageValue > metrics[t].averageValue THEN "winner"
     ELSE "rollback"

generateRecommendation(significance, metrics, test) ==
  LET c == controlVariant(test)
      t == testVariant(test)
  IN IF ~significance.significant THEN "inconclusive"
     ELSE IF c = 0 \/ t = 0 THEN "inconclusive"
     ELSE IF metrics[t].averageValue > metrics[c].averageValue THEN "winner"
     ELSE "rollback"

\* findWinningVariant: the first variant, in the order of the table, that no
\* other exceeds; '' for an empty table.
findWinningVariant(metrics) ==
  LET best == {k \in 1..Len(metrics) :
                 /\ \A j \in 1..Len(metrics) : metrics[j].averageValue <= metrics[k].averageValue
                 /\ \A j \in 1..(k - 1) : metrics[j].averageValue < metrics[k].averageValue}
  IN IF best = {} THEN "" ELSE VariantIds[CHOOSE k \in best : TRUE]

\* calculateResults for the experiment testId on file, over the event log.
\* sampleSizes, conversionRate, the confidence interval and the custom metrics
\* are left out: nothing reads them.
calculateResults(test, testId, events) ==
  LET ofTest == SelectSeq(events, LAMBDA e : e.testId = testId)
      metrics == [k \in 1..Len(test.weights) |->
                    calculateVariantMetrics(
                      SelectSeq(ofTest, LAMBDA e : e.variantId = VariantIds[k]),
                      test.primaryMetric)]
      significance == performSignificanceTest(metrics, test)
  IN [metrics |-> metrics,
      significance |-> significance,
      recommendation |-> generateRecommendation(significance, metrics, test),
      winningVariant |-> IF significance.significant THEN findWinningVariant(metrics)
                         ELSE "undefined"]

\* stopTest that returns without an error when no experiment has the id.
stopTest_silent(w, testId) ==
  IF testId \notin DOMAIN w.tests THEN w
  ELSE [w EXCEPT !.tests[testId].status = "completed",
                 !.tests[testId].results = calculateResults(w.tests[testId], testId, w.events),
                 !.tests[testId].monitoringInterval = FALSE]

\* stopTest: the status is set, then the results are computed over the event
\* log and filed with the experiment, and stopMonitoring clears the interval
\* whose handle the record holds.
stopTest(w, testId) ==
  IF testId \notin DOMAIN w.tests THEN Throw(w)
  ELSE [w EXCEPT !.tests[testId].status = "completed",
                 !.tests[testId].results = calculateResults(w.tests[testId], testId, w.events),
                 !.tests[testId].monitoringInterval = FALSE]

\* ------------------------------------- ABTestManager: the safeguard monitor
\* The safeguards and the rollback triggers the modelled experiments carry:
\* those createRolloutABTest derives from the modelled rollback conditions.
Safeguards == [maxErrorRate |-> 50, maxLatencyIncrease |-> 130, minSuccessRate |-> 950]

RollbackTriggers ==
  [k \in 1..Len(RollbackConditions) |->
     [metric |-> RollbackConditions[k].metric,
      condition |-> RollbackConditions[k].operator,
      threshold |-> RollbackConditions[k].threshold]]

evaluateTriggerCondition(value, trigger) ==
  CASE trigger.condition = "gt" -> value > trigger.threshold
    [] trigger.condition = "lt" -> value < trigger.threshold
    [] trigger.condition = "eq" -> value = trigger.threshold
    [] OTHER -> FALSE

\* triggerRollback: the experiment is paused, whatever its status is;
\* reassignAllUsers, logRollback and notifyRollback only write to the console.
triggerRollback(w, testId) ==
  IF testId \notin DOMAIN w.tests THEN w
  ELSE [w EXCEPT !.tests[testId].status = "paused"]

\* checkSafeguards after its await of getCurrentMetrics.
checkSafeguards(w, testId, currentMetrics) ==
  IF currentMetrics.errorRate > Safeguards.maxErrorRate THEN triggerRollback(w, testId)
  ELSE IF currentMetrics.latency > Safeguards.maxLatencyIncrease
  THEN triggerRollback(w, testId)
  ELSE IF currentMetrics.successRate < Safeguards.minSuccessRate
  THEN triggerRollback(w, testId)
  ELSE IF \E k \in 1..Len(RollbackTriggers) :
             evaluateTriggerCondition(currentMetrics[RollbackTriggers[k].metric],
                                      RollbackTriggers[k])
  THEN triggerRollback(w, testId)
  ELSE w

\* getUserAssignment: the index of the first active assignment of this user
\* to testId, 0 if there is none.
getUserAssignment(assignments, testId) ==
  LET found == {i \in 1..Len(assignments) :
                  assignments[i].testId = testId /\ assignments[i].isActive}
  IN IF found = {} THEN 0 ELSE CHOOSE i \in found : \A j \in found : i <= j

\* recordAssignment that files the assignment with isActive false.
recordAssignment_inactive(assignments, testId, variantId) ==
  Append(assignments, [testId |-> testId, variantId |-> variantId, isActive |-> FALSE])

recordAssignment(assignments, testId, variantId) ==
  Append(assignments, [testId |-> testId, variantId |-> variantId, isActive |-> TRUE])

getUserData == [type |-> "beta", experience |-> "intermediate", platform |-> "desktop"]

\* isUserEligible with the value of Math.random() * 100 it draws.  getUserData
\* returns no attributes, so no exclusion ever applies.
isUserEligible(test, roll) ==
  LET criteria == test.targetAudience.criteria IN
  IF roll > test.targetAudience.percentage THEN FALSE
  ELSE IF criteria.userType # "" /\ criteria.userType # getUserData.type THEN FALSE
  ELSE IF criteria.experience # "" /\ criteria.experience # getUserData.experience THEN FALSE
  ELSE IF criteria.platform # "" /\ criteria.platform # getUserData.platform THEN FALSE
  ELSE TRUE

randomAssignment(weights, random) ==
  LET k == WalkFrom(weights, 1, 0, random * 100)
  IN IF k # 0 THEN VariantIds[k] ELSE VariantIds[1]

\* userId is given by its code units.
deterministicAssignment(weights, userId_, seed) ==
  LET hundredths == HashMod10000(simpleHash(userId_ \o CodeUnits(seed)))
      k == WalkFrom(weights, 1, 0, hundredths)
  IN IF k # 0 THEN VariantIds[k] ELSE VariantIds[1]

Min(a, b) == IF a <= b THEN a ELSE b

\* The exposure without the cap at maxPercentage.
rampPercentage_uncapped(gradualRollout, hoursElapsed) ==
  LET increments == hoursElapsed \div gradualRollout.incrementInterval
  IN gradualRollout.initialPercentage + increments * gradualRollout.incrementPercentage

\* The currentPercentage that gradualAssignment computes from the hours since
\* the experiment's startDate.
rampPercentage(gradualRollout, hoursElapsed) ==
  LET increments == hoursElapsed \div gradualRollout.incrementInterval
  IN Min(gradualRollout.initialPercentage + increments * gradualRollout.incrementPercentage,
         gradualRollout.maxPercentage)

gradualAssignment(test, hoursElapsed, random, pick) ==
  IF ~test.allocation.hasGradual THEN randomAssignment(test.weights, pick)
  ELSE LET g == test.allocation.gradualRollout
           currentPercentage == rampPercentage(g, hoursElapsed)
       IN IF random > currentPercentage
          THEN (IF test.control # 0 THEN VariantIds[test.control] ELSE VariantIds[1])
          ELSE randomAssignment(test.weights, pick)

\* d holds what the call draws: the eligibility roll, the gradual roll, the
\* roll of the random pick, and the hours since the experiment started.
assignUserToVariant(test, uid, d) ==
  CASE test.allocation.type = "random" -> randomAssignment(test.weights, d.pick)
    [] test.allocation.type = "deterministic" ->
         deterministicAssignment(test.weights, CodeUnits(uid), test.allocation.seed)
    [] test.allocation.type = "gradual" -> gradualAssignment(test, d.hours, d.gradual, d.pick)
    [] OTHER -> VariantIds[1]

\* getAssignment that does not look for an existing assignment first.
getAssignment_noCheck(tests, assignments, uid, testId, d) ==
  IF testId \notin DOMAIN tests \/ tests[testId].status # "active"
  THEN [ret |-> "null", assignments |-> assignments]
  ELSE IF ~isUserEligible(tests[testId], d.eligible)
  THEN [ret |-> "null", assignments |-> assignments]
  ELSE LET variantId == assignUserToVariant(tests[testId], uid, d)
       IN [ret |-> variantId,
           assignments |-> recordAssignment(assignments, testId, variantId)]

\* getAssignment is synchronous: it runs from its lookup to its return in one
\* segment.  It yields the returned value ("null" for null) and the
\* assignments it leaves.
getAssignment(tests, assignments, uid, testId, d) ==
  IF testId \notin DOMAIN tests \/ tests[testId].status # "active"
  THEN [ret |-> "null", assignments |-> assignments]
  ELSE LET existing == getUserAssignment(assignments, testId) IN
       IF existing # 0
       THEN [ret |-> assignments[existing].variantId, assignments |-> assignments]
       ELSE IF ~isUserEligible(tests[testId], d.eligible)
       THEN [ret |-> "null", assignments |-> assignments]
       ELSE LET variantId == assignUserToVariant(tests[testId], uid, d)
            IN [ret |-> variantId,
                assignments |-> recordAssignment(assignments, testId, variantId)]

\* trackEvent that records the event of an unassigned user with no variant.
trackEvent_noGuard(assignments, events, uid, testId, eventType, eventValue) ==
  LET a == getUserAssignment(assignments, testId)
  IN Append(events, [userId |-> uid, testId |-> testId,
                     variantId |-> IF a = 0 THEN "undefined" ELSE assignments[a].variantId,
                     eventType |-> eventType, eventValue |-> eventValue])

\* trackEvent that starts the log anew with the event it records.
trackEvent_restart(assignments, events, uid, testId, eventType, eventValue) ==
  LET a == getUserAssignment(assignments, testId)
  IN IF a = 0 THEN events
     ELSE << [userId |-> uid, testId |-> testId,
              variantId |-> assignments[a].variantId, eventType |-> eventType,
              eventValue |-> eventValue] >>

trackEvent(assignments, events, uid, testId, eventType, eventValue) ==
  LET a == getUserAssignment(assignments, testId)
  IN IF a = 0 THEN events
     ELSE Append(events, [userId |-> uid, testId |-> testId,
                          variantId |-> assignments[a].variantId, eventType |-> eventType,
                          eventValue |-> eventValue])

\* ----------------------------------------------------------- RolloutManager
createRolloutABTest(w, p) ==
  LET plan == w.rollouts[p] IN
  IF Len(plan.phases) = 0 THEN Throw(w)   \* TypeError on plan.phases[0].percentage
  ELSE LET pct == plan.phases[1].percentage
           w1  == createTest(w, MirrorConfig(pct))
       IN IF w1.threw THEN w1 ELSE startTest(w1, RolloutTestId(p))

\* persistRollout: the plan as it is now replaces its record in the store.
persistRollout(w, p) == [w EXCEPT !.stored = (p :> w.rollouts[p].status) @@ @]

\* pauseRollout that also takes the plan's exposure down.
pauseRollout_zeroes(w, p) ==
  IF p \notin DOMAIN w.rollouts THEN Throw(w)
  ELSE persistRollout([w EXCEPT !.rollouts[p].status = "paused",
                                !.rollouts[p].currentPercentage = 0], p)

pauseRollout(w, p) ==
  IF p \notin DOMAIN w.rollouts THEN Throw(w)
  ELSE persistRollout([w EXCEPT !.rollouts[p].status = "paused"], p)

resumeRollout(w, p) ==
  IF p \notin DOMAIN w.rollouts THEN Throw(w)
  ELSE persistRollout([w EXCEPT !.rollouts[p].status = "active"], p)

\* rollbackRollout that disables the flag but forgets to zero its percentage.
rollbackRollout_keepsPercentage(w, p) ==
  IF p \notin DOMAIN w.rollouts THEN Throw(w)
  ELSE LET plan == w.rollouts[p]
           w1 == [w EXCEPT !.rollouts[p].status = "rolled_back",
                           !.rollouts[p].rollbacksTriggered = @ + 1]
           w2 == IF plan.feature \in DOMAIN w1.flags
                 THEN [w1 EXCEPT !.flags[plan.feature].enabled = FALSE]
                 ELSE w1
           w3 == stopTest(w2, RolloutTestId(p))
       IN IF w3.threw THEN w3 ELSE persistRollout(w3, p)

rollbackRollout(w, p) ==
  IF p \notin DOMAIN w.rollouts THEN Throw(w)
  ELSE LET plan == w.rollouts[p]
           w1 == [w EXCEPT !.rollouts[p].status = "rolled_back",
                           !.rollouts[p].rollbacksTriggered = @ + 1]
           w2 == IF plan.feature \in DOMAIN w1.flags
                 THEN [w1 EXCEPT !.flags[plan.feature].enabled = FALSE,
                                 !.flags[plan.feature].rolloutPercentage = 0]
                 ELSE w1
           w3 == stopTest(w2, RolloutTestId(p))
       IN IF w3.threw THEN w3 ELSE persistRollout(w3, p)

completeRollout(w, p) ==
  IF p \notin DOMAIN w.rollouts THEN w
  ELSE LET plan == w.rollouts[p]
           w1 == [w EXCEPT !.rollouts[p].status = "completed",
                           !.rollouts[p].currentPercentage = 100]
           w2 == IF plan.feature \in DOMAIN w1.flags
                 THEN [w1 EXCEPT !.flags[plan.feature].rolloutPercentage = 100]
                 ELSE w1
           w3 == stopTest(w2, RolloutTestId(p))
       IN IF w3.threw THEN w3 ELSE persistRollout(w3, p)

\* transitionToPhase whose first segment ends after the plan is updated: the
\* flag is written only after an await, in a later segment.
transitionToPhase_flagAfterAwait(w, p, phaseIndex) ==
  IF p \notin DOMAIN w.rollouts THEN w
  ELSE LET plan == w.rollouts[p] IN
       IF phaseIndex >= Len(plan.phases) THEN completeRollout(w, p)
       ELSE LET phase == plan.phases[phaseIndex + 1]
                w1 == [w EXCEPT
                         !.rollouts[p].phaseTransitions =
                             Append(@, <<plan.currentPhase, phaseIndex>>),
                         !.rollouts[p].currentPhase = phaseIndex,
                         !.rollouts[p].currentPercentage = phase.percentage]
            IN persistRollout(IF phaseIndex < Len(plan.phases) - 1
                              THEN [w1 EXCEPT !.timers[p][phaseIndex] = @ + 1]
                              ELSE w1, p)

\* Lines 298-316 run without an await in between: the transition record, the
\* plan's phase and percentage and the flag's percentage change in one segment.
transitionToPhase(w, p, phaseIndex) ==
  IF p \notin DOMAIN w.rollouts THEN w
  ELSE LET plan == w.rollouts[p] IN
       IF phaseIndex >= Len(plan.phases) THEN completeRollout(w, p)
       ELSE LET phase == plan.phases[phaseIndex + 1]
                w1 == [w EXCEPT
                         !.rollouts[p].phaseTransitions =
                             Append(@, <<plan.currentPhase, phaseIndex>>),
                         !.rollouts[p].currentPhase = phaseIndex,
                         !.rollouts[p].currentPercentage = phase.percentage]
                w2 == IF plan.feature \in DOMAIN w1.flags
                      THEN [w1 EXCEPT !.flags[plan.feature].rolloutPercentage =
                                          phase.percentage]
                      ELSE w1
            IN persistRollout(IF phaseIndex < Len(plan.phases) - 1
                              THEN [w2 EXCEPT !.timers[p][phaseIndex] = @ + 1]
                              ELSE w2, p)

\* startRollout up to its await of createRolloutABTest.
startRollout(w, p) ==
  IF p \notin DOMAIN w.rollouts THEN Throw(w)
  ELSE createRolloutABTest([w EXCEPT !.rollouts[p].status = "active"], p)

\* evaluatePhaseTransition that rolls back whenever the criteria are not met.
evaluatePhaseTransition_noPause(w, p, currentPhaseIndex, currentMetrics) ==
  LET plan  == w.rollouts[p]
      phase == plan.phases[currentPhaseIndex + 1]
  IN IF evaluatePhaseCriteria(phase.criteria, currentMetrics)
     THEN transitionToPhase(w, p, currentPhaseIndex + 1)
     ELSE rollbackRollout(w, p)

\* evaluatePhaseTransition after its await of getCurrentMetrics.
evaluatePhaseTransition(w, p, currentPhaseIndex, currentMetrics) ==
  LET plan  == w.rollouts[p]
      phase == plan.phases[currentPhaseIndex + 1]
  IN IF evaluatePhaseCriteria(phase.criteria, currentMetrics)
     THEN transitionToPhase(w, p, currentPhaseIndex + 1)
     ELSE IF shouldTriggerRollback(plan, currentMetrics)
          THEN rollbackRollout(w, p)
          ELSE pauseRollout(w, p)

\* checkActiveRollouts, one plan of the loop, after its await of getCurrentMetrics.
checkActiveRollouts(w, p, currentMetrics) ==
  LET plan == w.rollouts[p] IN
  IF \E k \in 1..Len(plan.rollbackConditions) :
        evaluateRollbackCondition(plan.rollbackConditions[k], currentMetrics)
  THEN rollbackRollout(w, p)
  ELSE w

\* ------------------------------------------------------------------ actions
RECURSIVE SumOver(_, _)
SumOver(f, S) ==
  IF S = {} THEN 0 ELSE LET x == CHOOSE y \in S : TRUE IN f[x] + SumOver(f, S \ {x})

\* The bounds of the model: over all plans, the rollback counters and the
\* transition logs stop growing at their caps; so do the armed timers of a
\* phase and the generated experiment ids.
Bounded(w) ==
  /\ SumOver([p \in DOMAIN w.rollouts |-> w.rollouts[p].rollbacksTriggered],
             DOMAIN w.rollouts) <= MaxRollbacks
  /\ SumOver([p \in DOMAIN w.rollouts |-> Len(w.rollouts[p].phaseTransitions)],
             DOMAIN w.rollouts) <= MaxLog
  /\ \A p \in PlanIds : \A i \in PhaseIdx : w.timers[p][i] <= MaxInFlight
  /\ NextTestNo(w) <= MaxTests + 1

Commit(w) ==
  /\ Bounded(w)
  /\ activeRollouts' = w.rollouts
  /\ featureFlags' = w.flags
  /\ activeTests' = w.tests
  /\ timers' = w.timers
  /\ stored' = w.stored

\* What the history variable keeps of a segment: its handler, its plan, the
\* phase index and the metric snapshot it ran with (if any), how the segment
\* ended, and whether it ended in an exception.
NoMetrics == [successRate |-> 0, errorRate |-> 0, latency |-> 0, userSatisfaction |-> 0]

Ran(op, p, outcome, w) ==
  [op |-> op, id |-> p, phase |-> 0, m |-> NoMetrics, outcome |-> outcome,
   threw |-> w.threw]

RanWith(op, p, i, m, outcome, w) ==
  [op |-> op, id |-> p, phase |-> i, m |-> m, outcome |-> outcome, threw |-> w.threw]

NewPlan(feature, pcts) ==
  [status |-> "planned", currentPhase |-> 0, currentPercentage |-> 0,
   feature |-> feature, phases |-> Phases(pcts),
   rollbackConditions |-> RollbackConditions,
   rollbacksTriggered |-> 0, phaseTransitions |-> << >>]

CreateFeatureFlag(f, flag) ==
  /\ f \notin DOMAIN featureFlags
  /\ \A g \in FlagIds : g < f => g \in DOMAIN featureFlags
  /\ featureFlags' = featureFlags @@ (f :> flag)
  /\ last' = Ran("createFeatureFlag", f, "ok", World)
  /\ UNCHANGED <<activeRollouts, activeTests, stored, timers, evals, polls, starts, abVars>>

CreateRolloutPlan(p, feature, pcts) ==
  /\ p \notin DOMAIN activeRollouts
  /\ \A q \in PlanIds : q < p => q \in DOMAIN activeRollouts
  /\ activeRollouts' = activeRollouts @@ (p :> NewPlan(feature, pcts))
  /\ stored' = (p :> "planned") @@ stored
  /\ last' = Ran("createRolloutPlan", p, "ok", World)
  /\ UNCHANGED <<featureFlags, activeTests, timers, evals, polls, starts, abVars>>

StartRollout(p) ==
  LET w == startRollout(World, p) IN
  /\ starts[p] < MaxInFlight
  /\ Commit(w)
  /\ starts' = IF w.threw THEN starts ELSE [starts EXCEPT ![p] = @ + 1]
  /\ last' = Ran("startRollout", p, IF w.threw THEN "throws" ELSE "awaits", w)
  /\ UNCHANGED <<evals, polls, abVars>>

\* startRollout after createRolloutABTest returned: transitionToPhase(rolloutId, 0).
StartRolloutResume(p) ==
  LET w == transitionToPhase(World, p, 0) IN
  /\ starts[p] > 0
  /\ Commit(w)
  /\ starts' = [starts EXCEPT ![p] = @ - 1]
  /\ last' = Ran("startRollout", p, "transition", w)
  /\ UNCHANGED <<evals, polls, abVars>>

PauseRollout(p) ==
  LET w == pauseRollout(World, p) IN
  /\ Commit(w)
  /\ last' = Ran("pauseRollout", p, IF w.threw THEN "throws" ELSE "ok", w)
  /\ UNCHANGED <<evals, polls, starts, abVars>>

ResumeRollout(p) ==
  LET w == resumeRollout(World, p) IN
  /\ Commit(w)
  /\ last' = Ran("resumeRollout", p, IF w.threw THEN "throws" ELSE "ok", w)
  /\ UNCHANGED <<evals, polls, starts, abVars>>

RollbackRollout(p) ==
  LET w == rollbackRollout(World, p) IN
  /\ Commit(w)
  /\ last' = Ran("rollbackRollout", p, IF w.threw THEN "throws" ELSE "ok", w)
  /\ UNCHANGED <<evals, polls, starts, abVars>>

\* The setTimeout callback: evaluatePhaseTransition up to its await.
TimerFire(p, i) ==
  /\ timers[p][i] > 0
  /\ timers' = [timers EXCEPT ![p][i] = @ - 1]
  /\ IF p \in DOMAIN activeRollouts /\ activeRollouts[p].status = "active"
     THEN /\ evals[p][i] < MaxInFlight
          /\ evals' = [evals EXCEPT ![p][i] = @ + 1]
          /\ last' = RanWith("timer", p, i, NoMetrics, "awaits", World)
     ELSE /\ UNCHANGED evals
          /\ last' = RanWith("timer", p, i, NoMetrics, "returns", World)
  /\ UNCHANGED <<activeRollouts, featureFlags, activeTests, stored, polls, starts, abVars>>

EvalResume(p, i, m) ==
  LET w == evaluatePhaseTransition(World, p, i, m) IN
  /\ evals[p][i] > 0
  /\ Commit(w)
  /\ evals' = [evals EXCEPT ![p][i] = @ - 1]
  /\ last' = RanWith("evaluatePhaseTransition", p, i, m, "resumed", w)
  /\ UNCHANGED <<polls, starts, abVars>>

\* The setInterval callback of startMonitoring reaching plan p of the loop.
MonitorPoll(p) ==
  /\ p \in DOMAIN activeRollouts
  /\ activeRollouts[p].status = "active"
  /\ polls[p] < MaxInFlight
  /\ polls' = [polls EXCEPT ![p] = @ + 1]
  /\ last' = Ran("checkActiveRollouts", p, "awaits", World)
  /\ UNCHANGED <<activeRollouts, featureFlags, activeTests, stored, timers, evals, starts, abVars>>

MonitorResume(p, m) ==
  LET w == checkActiveRollouts(World, p, m) IN
  /\ polls[p] > 0
  /\ Commit(w)
  /\ polls' = [polls EXCEPT ![p] = @ - 1]
  /\ last' = RanWith("checkActiveRollouts", p, 0, m, "resumed", w)
  /\ UNCHANGED <<evals, starts, abVars>>

\* ------------------------------------------- actions of the experiment side
TestIds == {GenTestId(n) : n \in 1..MaxTests} \cup {RolloutTestId(p) : p \in PlanIds}

\* What one getAssignment call may draw: a low or a high value of each
\* Math.random() * 100, and the hours since the start.
LowHigh == {0, 90}

Draws == [eligible : LowHigh, gradual : LowHigh, pick : LowHigh, hours : Hours]

NoAnswers == [variants |-> {}, uncached |-> {}]

\* What the history variable keeps of a call on the experiment side: the
\* method, the experiment id it was called with (for createTest, the id it
\* generated), what it returned or how it ended, and whether it threw.
RanTest(op, t, outcome, w) ==
  [op |-> op, test |-> t, outcome |-> outcome, threw |-> w.threw]

\* The history variable keeps the configuration createTest was called with.
CreateTest(testConfig) ==
  LET w == createTest(World, testConfig) IN
  /\ Commit(w)
  /\ last' = [op |-> "createTest", test |-> GenTestId(NextTestNo(World)),
              outcome |-> IF w.threw THEN "throws" ELSE "ok", threw |-> w.threw,
              testConfig |-> testConfig]
  /\ UNCHANGED <<evals, polls, starts, abVars>>

StartTest(t) ==
  LET w == startTest(World, t) IN
  /\ Commit(w)
  /\ last' = RanTest("startTest", t, IF w.threw THEN "throws" ELSE "ok", w)
  /\ UNCHANGED <<evals, polls, starts, abVars>>

StopTest(t) ==
  LET w == stopTest(World, t) IN
  /\ Commit(w)
  /\ last' = RanTest("stopTest", t, IF w.threw THEN "throws" ELSE "ok", w)
  /\ UNCHANGED <<evals, polls, starts, abVars>>

\* answers keeps, per experiment, the variants getAssignment has returned, and
\* what it has returned when called on the active experiment with no
\* assignment on file.  The history variable keeps whether the call found an
\* assignment on file.
GetAssignment(t, d) ==
  LET r == getAssignment(activeTests, userAssignments, userId, t, d)
      active == t \in DOMAIN activeTests /\ activeTests[t].status = "active"
      cached == getUserAssignment(userAssignments, t) # 0
  IN /\ userAssignments' = r.assignments
     /\ answers' = [answers EXCEPT
                      ![t].variants = IF r.ret # "null" THEN @ \cup {r.ret} ELSE @,
                      ![t].uncached = IF active /\ ~cached THEN @ \cup {r.ret} ELSE @]
     /\ last' = [op |-> "getAssignment", test |-> t, outcome |-> r.ret,
                  threw |-> FALSE, cached |-> active /\ cached]
     /\ UNCHANGED <<activeRollouts, featureFlags, activeTests, stored, timers, evals, polls,
                    starts, userId, testEvents, tally, checks>>

\* getAssignment, with the history variable keeping what the call drew.
GetAssignmentAt(t, d) ==
  LET r == getAssignment(activeTests, userAssignments, userId, t, d)
      active == t \in DOMAIN activeTests /\ activeTests[t].status = "active"
      cached == getUserAssignment(userAssignments, t) # 0
  IN /\ userAssignments' = r.assignments
     /\ answers' = [answers EXCEPT
                      ![t].variants = IF r.ret # "null" THEN @ \cup {r.ret} ELSE @,
                      ![t].uncached = IF active /\ ~cached THEN @ \cup {r.ret} ELSE @]
     /\ last' = [op |-> "getAssignment", test |-> t, outcome |-> r.ret,
                  threw |-> FALSE, cached |-> active /\ cached, d |-> d]
     /\ UNCHANGED <<activeRollouts, featureFlags, activeTests, stored, timers, evals, polls,
                    starts, userId, testEvents, tally, checks>>

TrackEvent(t, eventType, eventValue) ==
  LET events == trackEvent(userAssignments, testEvents, userId, t, eventType, eventValue) IN
  /\ Len(events) <= MaxEvents
  /\ testEvents' = events
  /\ last' = RanTest("trackEvent", t,
                     IF events = testEvents THEN "dropped" ELSE "recorded", World)
  /\ UNCHANGED <<activeRollouts, featureFlags, activeTests, stored, timers, evals, polls,
                 starts, userId, userAssignments, answers, tally, checks>>

\* The event log that holds, for each variant k of experiment t, one
\* conversion event per value of values[k].
SampleEvents(t, values) ==
  LET of(k) == [i \in 1..Len(values[k]) |->
                  [userId |-> "eve", testId |-> t, variantId |-> VariantIds[k],
                   eventType |-> "conversion", eventValue |-> values[k][i]]]
  IN IF Len(values) = 3 THEN of(1) \o of(2) \o of(3) ELSE of(1) \o of(2)

\* calculateResults applied to an experiment of the given configuration and
\* to a log with the given values.  The history variable keeps the inputs and
\* the results.
CalculateResults(testConfig, values) ==
  LET t == GenTestId(1)
      test == NewTest(testConfig, "completed")
  IN /\ last' = [op |-> "calculateResults", test |-> t, threw |-> FALSE,
                  testConfig |-> testConfig, values |-> values,
                  results |-> calculateResults(test, t, SampleEvents(t, values))]
     /\ UNCHANGED <<activeRollouts, featureFlags, activeTests, stored, timers, evals, polls,
                    starts, abVars>>

\* deterministicAssignment for the next user of the population: an engine
\* constructed for user tally.n assigns its user under the allocation
\* {type: 'deterministic'} with no seed, and the variant is counted.
AssignNextUser ==
  LET variantId == deterministicAssignment(tally.weights, DigitsId(tally.n), "")
      k == CHOOSE i \in 1..Len(VariantIds) : VariantIds[i] = variantId
  IN /\ tally.n < Population
     /\ tally' = [tally EXCEPT !.n = @ + 1, !.counts[k] = @ + 1]
     /\ UNCHANGED <<activeRollouts, featureFlags, activeTests, stored, timers, evals, polls,
                    starts, userId, userAssignments, testEvents, answers, checks, last>>

\* The first lines of deterministicAssignment for a user id and a seed: the
\* hash of userId + seed and hash % 10000, the bucket in hundredths of a
\* percent.  The history variable keeps the input, the accumulator the loop
\* ends with, the hash, the bucket and the number of the call.
HashIdentity(id, seed) ==
  LET hashInput == id \o CodeUnits(seed)
      hash == simpleHash(hashInput)
  IN /\ (last.op = "simpleHash" => last.n < MaxHashCalls)
     /\ last' = [op |-> "simpleHash", input |-> hashInput,
                  acc |-> HashFrom(<<0, 0>>, hashInput, 1), hash |-> hash,
                  bucket |-> HashMod10000(hash),
                  n |-> IF last.op = "simpleHash" THEN last.n + 1 ELSE 1]
     /\ UNCHANGED <<activeRollouts, featureFlags, activeTests, stored, timers, evals, polls,
                    starts, abVars>>

\* The setInterval callback of startMonitoring: checkSafeguards up to its
\* await.  It runs while an interval of the experiment exists, under the
\* handle on the record or under a handle a later start has overwritten.
SafeguardTick(t) ==
  /\ t \in DOMAIN activeTests
  /\ activeTests[t].monitoringInterval \/ activeTests[t].orphanInterval
  /\ checks[t] < MaxInFlight
  /\ checks' = [checks EXCEPT ![t] = @ + 1]
  /\ last' = RanTest("checkSafeguards", t, "awaits", World)
  /\ UNCHANGED <<activeRollouts, featureFlags, activeTests, stored, timers, evals, polls,
                 starts, userId, userAssignments, testEvents, answers, tally>>

SafeguardResume(t, m) ==
  LET w == checkSafeguards(World, t, m) IN
  /\ checks[t] > 0
  /\ Commit(w)
  /\ checks' = [checks EXCEPT ![t] = @ - 1]
  /\ last' = [op |-> "checkSafeguards", test |-> t, outcome |-> "resumed",
              threw |-> w.threw, m |-> m]
  /\ UNCHANGED <<evals, polls, starts, userId, userAssignments, testEvents, answers,
                 tally>>

\* -------------------------------------------- actions of the flag evaluator
\* What the history variable keeps of an evaluation: the flag, the context and
\* the roll it was called with, and what it returned.
Asked(op, f, userContext, roll, ret) ==
  [op |-> op, id |-> f, phase |-> 0, m |-> NoMetrics, outcome |-> ret, threw |-> FALSE,
   userContext |-> userContext, roll |-> roll]

IsFeatureEnabled(f, userContext, roll) ==
  /\ last' = Asked("isFeatureEnabled", f, userContext, roll,
                   IF isFeatureEnabled(featureFlags, userId, f, userContext, roll)
                   THEN "true" ELSE "false")
  /\ UNCHANGED <<activeRollouts, featureFlags, activeTests, stored, timers, evals, polls,
                 starts, abVars>>

GetFeatureVariant(f, userContext, roll) ==
  /\ last' = Asked("getFeatureVariant", f, userContext, roll,
                   getFeatureVariant(featureFlags, userId, f, userContext, roll))
  /\ UNCHANGED <<activeRollouts, featureFlags, activeTests, stored, timers, evals, polls,
                 starts, abVars>>

\* ------------------------------------------------------------ specification
\* A freshly constructed engine over an empty store.
InitFresh ==
  /\ activeRollouts = << >>
  /\ stored = << >>
  /\ featureFlags = << >>
  /\ activeTests = << >>

\* An engine constructed over a store that holds a plan persisted by an earlier
\* pause or resume, the plan's flag, and an active experiment filed under the
\* id the plan's mirror is looked up by.
InitLoaded ==
  /\ \E st \in {"active", "paused"} : \E pcts \in PhaseLists :
        activeRollouts = (1 :> [NewPlan(1, pcts) EXCEPT !.status = st])
  /\ stored = [p \in DOMAIN activeRollouts |-> activeRollouts[p].status]
  /\ featureFlags = (1 :> PlainFlag(TRUE, 0))
  /\ activeTests = (RolloutTestId(1) :> NewTest(MirrorConfig(10), "active"))

InitRest ==
  /\ timers = [p \in PlanIds |-> [i \in PhaseIdx |-> 0]]
  /\ evals = [p \in PlanIds |-> [i \in PhaseIdx |-> 0]]
  /\ polls = [p \in PlanIds |-> 0]
  /\ starts = [p \in PlanIds |-> 0]
  /\ last = [op |-> "constructor", id |-> 0, phase |-> 0, m |-> NoMetrics,
             outcome |-> "ok", threw |-> FALSE]

NoTally == [weights |-> << >>, n |-> 0, counts |-> << >>]

\* No assignment and no event on file.
InitExperiments ==
  /\ userAssignments = << >>
  /\ testEvents = << >>
  /\ answers = [t \in TestIds |-> NoAnswers]
  /\ tally = NoTally
  /\ checks = [t \in TestIds |-> 0]

\* The rollout side is explored for one identity.
InitUser == userId = "eve"

\* No user of the population assigned yet, for each of the weight tables.
InitCohort ==
  /\ InitFresh /\ InitRest /\ InitUser
  /\ userAssignments = << >>
  /\ testEvents = << >>
  /\ answers = [t \in TestIds |-> NoAnswers]
  /\ checks = [t \in TestIds |-> 0]
  /\ tally \in {[weights |-> weights, n |-> 0, counts |-> [k \in 1..Len(weights) |-> 0]]
                  : weights \in WeightTables}

Init == InitFresh /\ InitRest /\ InitUser /\ InitExperiments

InitStore == (InitFresh \/ InitLoaded) /\ InitRest /\ InitUser /\ InitExperiments

\* An engine for any of the identities, over an empty store.
InitAny == InitFresh /\ InitRest /\ userId \in UserIds /\ InitExperiments

\* The public operations and the monitor.
Next ==
  \/ \E f \in FlagIds : \E en \in BOOLEAN : \E pct \in {0, 100} :
        CreateFeatureFlag(f, PlainFlag(en, pct))
  \/ \E p \in PlanIds : \E feature \in DOMAIN featureFlags \cup {NoFlag} :
        \E pcts \in PhaseLists : CreateRolloutPlan(p, feature, pcts)
  \/ \E p \in PlanIds : StartRollout(p)
  \/ \E p \in PlanIds : PauseRollout(p)
  \/ \E p \in PlanIds : ResumeRollout(p)
  \/ \E p \in PlanIds : RollbackRollout(p)
  \/ \E p \in PlanIds : MonitorPoll(p)
  \/ \E p \in PlanIds : \E m \in MetricSamples : MonitorResume(p, m)

\* The continuation of startRollout and the phase timers.
NextPhase ==
  \/ \E p \in PlanIds : StartRolloutResume(p)
  \/ \E p \in PlanIds : \E i \in PhaseIdx : TimerFire(p, i)
  \/ \E p \in PlanIds : \E i \in PhaseIdx : \E m \in MetricSamples : EvalResume(p, i, m)

\* All of it; the plans created on the way have phases.
NextStore ==
  \/ \E f \in FlagIds : \E en \in BOOLEAN : \E pct \in {0, 100} :
        CreateFeatureFlag(f, PlainFlag(en, pct))
  \/ \E p \in PlanIds : \E feature \in DOMAIN featureFlags \cup {NoFlag} :
        \E pcts \in {l \in PhaseLists : Len(l) > 0} : CreateRolloutPlan(p, feature, pcts)
  \/ \E p \in PlanIds : StartRollout(p)
  \/ \E p \in PlanIds : PauseRollout(p)
  \/ \E p \in PlanIds : ResumeRollout(p)
  \/ \E p \in PlanIds : RollbackRollout(p)
  \/ \E p \in PlanIds : MonitorPoll(p)
  \/ \E p \in PlanIds : \E m \in MetricSamples : MonitorResume(p, m)
  \/ NextPhase

\* The engine constructed over an empty store.
Spec == Init /\ [][Next]_vars

\* The engine constructed over an empty store or over one holding a plan with
\* its mirrored experiment.
SpecStore == InitStore /\ [][NextStore]_vars

\* Over an empty store no startRollout gets past createRolloutABTest, so no
\* timer is ever armed: Spec leaves no behaviour out by leaving NextPhase out.
SpecFull == Init /\ [][NextStore]_vars

\* An engine constructed over the store that holds the plan and its mirrored
\* experiment.
InitPhases == InitLoaded /\ InitRest /\ InitUser /\ InitExperiments

\* The plan on file is started, paused and resumed, and its phase timers and
\* evaluations run, with every snapshot the metrics provider may return.
NextPhases ==
  \/ \E p \in PlanIds : StartRollout(p)
  \/ \E p \in PlanIds : StartRolloutResume(p)
  \/ \E p \in PlanIds : PauseRollout(p)
  \/ \E p \in PlanIds : ResumeRollout(p)
  \/ \E p \in PlanIds : \E i \in PhaseIdx : TimerFire(p, i)
  \/ \E p \in PlanIds : \E i \in PhaseIdx : \E m \in MetricSamples : EvalResume(p, i, m)

SpecPhases == InitPhases /\ [][NextPhases]_vars

\* No interval of experiment t is running under a handle on its record: the
\* callers of startTest start an experiment that is not running.
NotMonitored(t) == t \in DOMAIN activeTests => ~activeTests[t].monitoringInterval

\* The experiment side, for the engine of one user: experiments are created,
\* started and stopped, the user asks for assignments and tracks events.
NextAB ==
  \/ \E testConfig \in TestConfigs : CreateTest(testConfig)
  \/ \E t \in TestIds : NotMonitored(t) /\ StartTest(t)
  \/ \E t \in TestIds : StopTest(t)
  \/ \E t \in TestIds : \E d \in Draws : GetAssignment(t, d)
  \/ \E t \in TestIds : \E eventType \in EventTypes : TrackEvent(t, eventType, NoValue)

SpecAB == Init /\ [][NextAB]_vars

\* The draws that matter to an experiment with random allocation and the
\* whole audience: the roll of the weighted pick.
PickDraws == {d \in Draws : d.eligible = 0 /\ d.gradual = 0 /\ d.hours = 0}

\* The ids the callers of one experiment use: the first generated id, and the
\* second, which no experiment carries.
ResultTestIds == {GenTestId(1), GenTestId(2)}

\* An experiment of any shape is created, run by the user and stopped, which
\* computes its results; configurations are offered again while it is on file.
NextResults ==
  \/ \E testConfig \in ResultConfigs :
        /\ (activeTests = << >> \/ ~validateTestConfig(testConfig.weights))
        /\ CreateTest(testConfig)
  \/ \E t \in ResultTestIds : StartTest(t)
  \/ \E t \in ResultTestIds : StopTest(t)
  \/ \E t \in ResultTestIds : \E d \in PickDraws : GetAssignment(t, d)
  \/ \E t \in ResultTestIds : \E eventType \in EventTypes : \E eventValue \in EventValues :
        TrackEvent(t, eventType, eventValue)

SpecResults == InitAny /\ [][NextResults]_vars

\* Experiments are created, started (also while they run) and stopped while
\* their safeguard monitors tick, with every snapshot the metrics provider
\* may return.
NextSafeguards ==
  \/ CreateTest(TestConfig(<<50, 50>>, "random", "", 100))
  \/ \E t \in ResultTestIds : StartTest(t)
  \/ \E t \in ResultTestIds : StopTest(t)
  \/ \E t \in ResultTestIds : SafeguardTick(t)
  \/ \E t \in ResultTestIds : \E m \in MetricSamples : SafeguardResume(t, m)

SpecSafeguards == Init /\ [][NextSafeguards]_vars

\* One experiment is created, started, run by the user, watched by its
\* safeguard monitor and stopped, while the user's events are tracked.
NextLog ==
  \/ activeTests = << >> /\ CreateTest(TestConfig(<<50, 50>>, "random", "", 100))
  \/ \E t \in ResultTestIds : NotMonitored(t) /\ StartTest(t)
  \/ \E t \in ResultTestIds : StopTest(t)
  \/ \E t \in ResultTestIds : \E d \in PickDraws : GetAssignment(t, d)
  \/ \E t \in ResultTestIds : \E eventType \in EventTypes : \E eventValue \in EventValues :
        TrackEvent(t, eventType, eventValue)
  \/ \E t \in ResultTestIds : SafeguardTick(t)
  \/ \E t \in ResultTestIds : \E m \in MetricSamples : SafeguardResume(t, m)

SpecLog == Init /\ [][NextLog]_vars

\* The results computation as a function of the experiment and of the log.
NextVerdict ==
  \E testConfig \in {c \in ResultConfigs : validateTestConfig(c.weights)} :
     \E values \in [1..2 -> ValueLists] : CalculateResults(testConfig, values)

SpecVerdict == Init /\ [][NextVerdict]_vars

\* The results computation applied to experiments with three variants, each
\* with MaxSamples conversion events in the log.
NextThreeWay ==
  \E testConfig \in ThreeWayConfigs :
     \E values \in [1..3 -> {l \in ValueLists : Len(l) = MaxSamples}] :
        CalculateResults(testConfig, values)

SpecThreeWay == Init /\ [][NextThreeWay]_vars

\* Gradual experiments are created and started, and the user asks for an
\* assignment at some hour after the start.
GradualDraws == [eligible : {0}, gradual : GradualRolls, pick : LowHigh, hours : GradualHours]

NextGradual ==
  \/ \E testConfig \in GradualConfigs : CreateTest(testConfig)
  \/ \E t \in TestIds : NotMonitored(t) /\ StartTest(t)
  \/ \E t \in TestIds : \E d \in GradualDraws : GetAssignmentAt(t, d)

SpecGradual == Init /\ [][NextGradual]_vars

\* The deterministic assignment as a function of the user id, over a
\* population of users.
SpecCohort == InitCohort /\ [][AssignNextUser]_vars

\* The cohort hash as a function of the user id and the seed.
NextHash == \E id \in HashIdentities : \E seed \in HashSeeds : HashIdentity(id, seed)

SpecHash == Init /\ [][NextHash]_vars

\* The flag evaluator: flags are created and evaluated.
NextFlags ==
  \/ \E f \in FlagIds : \E flag \in FlagConfigs : CreateFeatureFlag(f, flag)
  \/ \E f \in FlagIds \cup {MaxFlags + 1} : \E userContext \in UserContexts :
        \E roll \in Rolls : IsFeatureEnabled(f, userContext, roll)
  \/ \E f \in FlagIds \cup {MaxFlags + 1} : \E userContext \in UserContexts :
        \E roll \in Rolls : GetFeatureVariant(f, userContext, roll)

SpecFlags == InitAny /\ [][NextFlags]_vars

\* The operations that take the id of a plan or of an experiment, on an engine
\* that holds a flag, one plan with phases, and experiments.
NextOps ==
  \/ \E f \in FlagIds : CreateFeatureFlag(f, PlainFlag(TRUE, 100))
  \/ \E p \in PlanIds : \E feature \in DOMAIN featureFlags \cup {NoFlag} :
        \E pcts \in {l \in PhaseLists : Len(l) > 0} :
           activeRollouts = << >> /\ CreateRolloutPlan(p, feature, pcts)
  \/ \E p \in PlanIds : StartRollout(p)
  \/ \E p \in PlanIds : PauseRollout(p)
  \/ \E p \in PlanIds : ResumeRollout(p)
  \/ \E p \in PlanIds : RollbackRollout(p)
  \/ CreateTest(TestConfig(<<50, 50>>, "random", "", 100))
  \/ \E t \in TestIds : NotMonitored(t) /\ StartTest(t)
  \/ \E t \in TestIds : StopTest(t)

SpecOps == Init /\ [][NextOps]_vars

\* Snapshots that meet the phase criteria and breach no rollback condition.
GoodSamples ==
  {m \in MetricSamples :
     /\ evaluatePhaseCriteria(Criteria, m)
     /\ \A k \in 1..Len(RollbackConditions) :
           ~evaluateRollbackCondition(RollbackConditions[k], m)}

\* Plans are created and started and then left to their timers and to the
\* monitor, with a metrics provider that only returns good snapshots.
NextHealthy ==
  \/ \E f \in FlagIds : \E en \in BOOLEAN : \E pct \in {0, 100} :
        CreateFeatureFlag(f, PlainFlag(en, pct))
  \/ \E p \in PlanIds : \E feature \in DOMAIN featureFlags \cup {NoFlag} :
        \E pcts \in PhaseLists : CreateRolloutPlan(p, feature, pcts)
  \/ \E p \in PlanIds : StartRollout(p)
  \/ \E p \in PlanIds : StartRolloutResume(p)
  \/ \E p \in PlanIds : \E i \in PhaseIdx : TimerFire(p, i)
  \/ \E p \in PlanIds : \E i \in PhaseIdx : \E m \in GoodSamples : EvalResume(p, i, m)
  \/ \E p \in PlanIds : MonitorPoll(p)
  \/ \E p \in PlanIds : \E m \in GoodSamples : MonitorResume(p, m)

\* The event loop runs every continuation whose await has settled and every
\* timer whose delay has passed.
SpecHealthy ==
  /\ InitStore
  /\ [][NextHealthy]_vars
  /\ WF_vars(\E p \in PlanIds : StartRolloutResume(p))
  /\ WF_vars(\E p \in PlanIds : \E i \in PhaseIdx : TimerFire(p, i))
  /\ WF_vars(\E p \in PlanIds : \E i \in PhaseIdx : \E m \in GoodSamples : EvalResume(p, i, m))
  /\ WF_vars(\E p \in PlanIds : \E m \in GoodSamples : MonitorResume(p, m))

\* The plan on file is started once; it is paused at any moment and a paused
\* plan is resumed, while the monitor polls and the metrics provider only
\* returns good snapshots.
NextResume ==
  \/ \E p \in PlanIds :
        /\ p \in DOMAIN activeRollouts
              => Len(activeRollouts[p].phaseTransitions) = 0 /\ starts[p] = 0
        /\ StartRollout(p)
  \/ \E p \in PlanIds : StartRolloutResume(p)
  \/ \E p \in PlanIds : PauseRollout(p)
  \/ \E p \in DOMAIN activeRollouts :
        activeRollouts[p].status = "paused" /\ ResumeRollout(p)
  \/ \E p \in PlanIds : \E i \in PhaseIdx : TimerFire(p, i)
  \/ \E p \in PlanIds : \E i \in PhaseIdx : \E m \in GoodSamples : EvalResume(p, i, m)
  \/ \E p \in PlanIds : MonitorPoll(p)
  \/ \E p \in PlanIds : \E m \in GoodSamples : MonitorResume(p, m)

\* The event loop runs every continuation whose await has settled and every
\* timer whose delay has passed; nobody is bound to call pause or resume.
SpecResume ==
  /\ InitPhases
  /\ [][NextResume]_vars
  /\ WF_vars(\E p \in PlanIds : StartRolloutResume(p))
  /\ WF_vars(\E p \in PlanIds : \E i \in PhaseIdx : TimerFire(p, i))
  /\ WF_vars(\E p \in PlanIds : \E i \in PhaseIdx : \E m \in GoodSamples : EvalResume(p, i, m))
  /\ WF_vars(\E p \in PlanIds : \E m \in GoodSamples : MonitorResume(p, m))

NoPhaseWork ==
  \A p \in PlanIds : starts[p] = 0 /\ \A i \in PhaseIdx : timers[p][i] = 0 /\ evals[p][i] = 0

\* ------------------------------------------------------------------- claims
Plan(p) == activeRollouts[p]

HasFlag(p) == Plan(p).feature \in DOMAIN featureFlags

Flag(p) == featureFlags[Plan(p).feature]

FlagOff(p) == HasFlag(p) => (~Flag(p).enabled /\ Flag(p).rolloutPercentage = 0)

\* C1: right after rollbackRollout ran on an existing plan, the plan's status is
\* rolled_back and its target feature flag (if it exists) is disabled with
\* rolloutPercentage 0.
C1_RollbackDisablesFlag ==
  (last.op = "rollbackRollout" /\ last.id \in DOMAIN activeRollouts)
     => (Plan(last.id).status = "rolled_back" /\ FlagOff(last.id))

\* A plan that had reached a phase, rolled back by the public call, its flag off.
C1_Witness ==
  /\ last.op = "rollbackRollout"
  /\ last.id \in DOMAIN activeRollouts
  /\ Plan(last.id).currentPercentage > 0
  /\ HasFlag(last.id)
  /\ Plan(last.id).status = "rolled_back"
  /\ ~Flag(last.id).enabled /\ Flag(last.id).rolloutPercentage = 0

\* C2 (as claimed): resumeRollout on a rolled_back plan is a no-op: status,
\* currentPhase and currentPercentage stay as they are and the flags too.
C2_ResumeAfterRollbackNoOp ==
  [][\A p \in DOMAIN activeRollouts :
        (Plan(p).status = "rolled_back" /\ last'.op = "resumeRollout" /\ last'.id = p)
           => (activeRollouts'[p] = activeRollouts[p] /\ featureFlags' = featureFlags)]_vars

\* C3 (as claimed): an active or paused plan carries its phase's percentage, a
\* rolled_back plan 0, a completed plan 100.
C3_PercentageMatchesStatus ==
  \A p \in DOMAIN activeRollouts :
     /\ (Plan(p).status \in {"active", "paused"} /\ Plan(p).currentPhase < Len(Plan(p).phases))
           => Plan(p).currentPercentage = Plan(p).phases[Plan(p).currentPhase + 1].percentage
     /\ Plan(p).status = "rolled_back" => Plan(p).currentPercentage = 0
     /\ Plan(p).status = "completed" => Plan(p).currentPercentage = 100

\* C4 (as claimed): startRollout on a planned plan with phases leaves it active in
\* phase 0 at phases[0].percentage, and the target flag at that percentage.
C4_StartEntersPhaseZero ==
  [][\A p \in DOMAIN activeRollouts :
        ( /\ Plan(p).status = "planned"
          /\ Len(Plan(p).phases) > 0
          /\ last'.op = "startRollout" /\ last'.id = p /\ last'.outcome # "awaits" )
        => ( /\ activeRollouts'[p].status = "active"
             /\ activeRollouts'[p].currentPhase = 0
             /\ activeRollouts'[p].currentPercentage = Plan(p).phases[1].percentage
             /\ HasFlag(p) => featureFlags'[Plan(p).feature].rolloutPercentage
                                 = Plan(p).phases[1].percentage )]_vars

\* C5 (as claimed): a started plan with phases, fed good metrics and with its
\* timers firing, eventually is completed at 100 with its flag at 100.
C5_StartedPlanCompletes ==
  \A p \in PlanIds :
     []( ( /\ last.op = "startRollout" /\ last.id = p
           /\ p \in DOMAIN activeRollouts
           /\ Len(Plan(p).phases) > 0 )
         => <>( /\ p \in DOMAIN activeRollouts
                /\ Plan(p).status = "completed"
                /\ Plan(p).currentPercentage = 100
                /\ HasFlag(p) => Flag(p).rolloutPercentage = 100 ) )

C7_MonitorRollsBackOnCritical ==
  (last.op = "checkActiveRollouts" /\ last.outcome = "resumed" /\ last.m.errorRate > 50)
     => (Plan(last.id).status = "rolled_back" /\ FlagOff(last.id))

\* A poll with errorRate = 0.10 has just rolled back a plan whose flag exists.
C7_Witness ==
  /\ last.op = "checkActiveRollouts" /\ last.outcome = "resumed"
  /\ last.m.errorRate = 100
  /\ HasFlag(last.id)
  /\ Plan(last.id).status = "rolled_back"
  /\ Plan(last.id).rollbacksTriggered = 1
  /\ ~Flag(last.id).enabled /\ Flag(last.id).rolloutPercentage = 0

\* The edges of the rollout state machine.
AllowedEdges ==
  { <<"planned", "active">>, <<"active", "paused">>, <<"paused", "active">>,
    <<"active", "completed">>, <<"active", "rolled_back">>, <<"paused", "rolled_back">> }

\* C8 (as claimed): every change of a plan's status is an edge of the state machine.
C8_StatusFollowsStateMachine ==
  [][\A p \in DOMAIN activeRollouts :
        activeRollouts'[p].status # Plan(p).status
           => <<Plan(p).status, activeRollouts'[p].status>> \in AllowedEdges]_vars

C10_RollbackTakesEffectOnce ==
  [][\A p \in DOMAIN activeRollouts :
        ( /\ Plan(p).status = "rolled_back"
          /\ last'.id = p
          /\ last'.op \in {"rollbackRollout", "evaluatePhaseTransition", "checkActiveRollouts"} )
        => (activeRollouts'[p] = Plan(p) /\ featureFlags' = featureFlags)]_vars

\* C11: a segment that ran transitionToPhase on a plan (it appended a transition
\* record, or completed the plan) leaves the plan at the new phase with the new
\* phase's percentage and the target flag at that same percentage: no state
\* between two segments, where isFeatureEnabled or a status read can run, has
\* the plan at the new percentage and the flag at the old one, or the reverse.
C11_TransitionIsOneStep ==
  [][\A p \in DOMAIN activeRollouts :
        ( /\ last'.op \in {"startRollout", "evaluatePhaseTransition"}
          /\ last'.id = p
          /\ \/ Len(activeRollouts'[p].phaseTransitions) > Len(Plan(p).phaseTransitions)
             \/ (activeRollouts'[p].status = "completed" /\ Plan(p).status # "completed") )
        => LET new == activeRollouts'[p] IN
           /\ new.status # "completed"
                 => ( /\ new.currentPhase < Len(new.phases)
                      /\ new.currentPercentage = new.phases[new.currentPhase + 1].percentage )
           /\ new.status = "completed" => new.currentPercentage = 100
           /\ HasFlag(p)
                 => featureFlags'[new.feature].rolloutPercentage = new.currentPercentage]_vars

\* An evaluation has just moved a plan from phase 0 (10 %) to phase 1 (25 %):
\* plan and flag both read 25.
C11_Witness ==
  /\ last.op = "evaluatePhaseTransition" /\ last.phase = 0
  /\ last.id \in DOMAIN activeRollouts
  /\ Plan(last.id).currentPhase = 1
  /\ Plan(last.id).currentPercentage = 25
  /\ Len(Plan(last.id).phaseTransitions) = 2
  /\ HasFlag(last.id)
  /\ Flag(last.id).rolloutPercentage = 25

\* C18 (as claimed): a plan leaves planned for active, and an experiment leaves
\* draft for active, only in a step of the explicit start (startRollout for a
\* plan; startTest, which createRolloutABTest also calls, for an experiment).
C18_ActiveOnlyByStart ==
  [][ /\ \A p \in DOMAIN activeRollouts :
           (Plan(p).status = "planned" /\ activeRollouts'[p].status = "active")
              => last'.op = "startRollout"
      /\ \A t \in DOMAIN activeTests :
           (activeTests[t].status = "draft" /\ activeTests'[t].status = "active")
              => last'.op \in {"startTest", "startRollout"} ]_vars

\* The active assignments on file for experiment t.
ActiveAssignments(t) ==
  {i \in 1..Len(userAssignments) :
     userAssignments[i].testId = t /\ userAssignments[i].isActive}

IsActiveTest(t) == t \in DOMAIN activeTests /\ activeTests[t].status = "active"

\* C12: whatever the order of the getAssignment calls and whatever they draw, at
\* most one active assignment is on file per experiment for the engine's user,
\* and getAssignment has never returned two different variants for one
\* experiment.
C12_OneAssignmentPerExperiment ==
  \A t \in TestIds :
     /\ Cardinality(ActiveAssignments(t)) <= 1
     /\ Cardinality(answers[t].variants) <= 1

\* A later call on an experiment with random allocation found the assignment on
\* file, with the user assigned in a second experiment as well.
C12_Witness ==
  /\ last.op = "getAssignment" /\ last.cached
  /\ activeTests[last.test].allocation.type = "random"
  /\ Cardinality(ActiveAssignments(last.test)) = 1
  /\ Len(userAssignments) = 2

\* C13: once getAssignment has returned a variant for an experiment, every call
\* made while the experiment is active returns that variant, whatever the
\* allocation strategy and whatever the call draws.
C13_AssignmentIsSticky ==
  [][\A t \in TestIds :
        ( /\ last'.op = "getAssignment"
          /\ last'.test = t
          /\ answers[t].variants # {}
          /\ IsActiveTest(t) )
        => answers[t].variants = {last'.outcome}]_vars

\* A call on an experiment with gradual allocation returned the treatment
\* variant from the assignment on file.
C13_Witness ==
  /\ last.op = "getAssignment" /\ last.cached
  /\ activeTests[last.test].allocation.type = "gradual"
  /\ last.outcome = "treatment"
  /\ answers[last.test].variants = {"treatment"}
  /\ answers[last.test].uncached = {"treatment"}

\* C14 (as claimed): all evaluations of getAssignment on an active experiment
\* with deterministic allocation that start with no assignment on file return
\* the same result.
C14_DeterministicIgnoresDraws ==
  \A t \in DOMAIN activeTests :
     activeTests[t].allocation.type = "deterministic"
        => Cardinality(answers[t].uncached) <= 1

\* C15 (as claimed): two getFeatureVariant calls in a row for the same flag and
\* the same context, the flag unchanged, return the same result.
C15_VariantRepeats ==
  [][( /\ last.op = "getFeatureVariant"
       /\ last'.op = "getFeatureVariant"
       /\ last'.id = last.id
       /\ last'.userContext = last.userContext
       /\ featureFlags' = featureFlags )
     => last'.outcome = last.outcome]_vars

\* C16 (as claimed): isFeatureEnabled on a flag whose rolloutPercentage is 0
\* returns false, whatever the user, the context and the roll.
C16_ZeroPercentIsOff ==
  ( /\ last.op = "isFeatureEnabled"
    /\ last.id \in DOMAIN featureFlags
    /\ featureFlags[last.id].rolloutPercentage = 0 )
  => last.outcome = "false"

\* C17 (as claimed): isFeatureEnabled on an enabled flag at 100 % with no
\* attribute conditions returns true, whatever the user, the context and the roll.
C17_FullPercentIsOn ==
  ( /\ last.op = "isFeatureEnabled"
    /\ last.id \in DOMAIN featureFlags
    /\ featureFlags[last.id].enabled
    /\ featureFlags[last.id].rolloutPercentage = 100
    /\ featureFlags[last.id].conditions = << >> )
  => last.outcome = "true"

\* C17 (as amended): isFeatureEnabled on an enabled flag at 100 % with no
\* attribute conditions, and with no target audiences or with one of the user's
\* audiences among them, returns true, whatever the user, the context and the
\* roll.
C17_FullPercentIsOnForAudience ==
  ( /\ last.op = "isFeatureEnabled"
    /\ last.id \in DOMAIN featureFlags
    /\ featureFlags[last.id].enabled
    /\ featureFlags[last.id].rolloutPercentage = 100
    /\ featureFlags[last.id].conditions = << >>
    /\ \/ featureFlags[last.id].targetAudiences = << >>
       \/ \E k \in 1..Len(featureFlags[last.id].targetAudiences) :
             featureFlags[last.id].targetAudiences[k] \in getUserAudiences )
  => last.outcome = "true"

\* The flag targets the audience 'beta', the call overrides the platform and
\* draws the highest roll: on.
C17_Witness ==
  /\ last.op = "isFeatureEnabled"
  /\ last.id \in DOMAIN featureFlags
  /\ featureFlags[last.id].enabled
  /\ featureFlags[last.id].rolloutPercentage = 100
  /\ featureFlags[last.id].conditions = << >>
  /\ featureFlags[last.id].targetAudiences = <<"beta">>
  /\ last.roll = 90
  /\ "platform" \in DOMAIN last.userContext
  /\ last.outcome = "true"

\* C19: trackEvent for an experiment in which the user has no active assignment
\* raises nothing and leaves the event log, the assignments and the experiments
\* as they are; and every event in the log carries the variant of an assignment
\* of the user to the event's experiment.
C19_TrackWithoutAssignmentIsDropped ==
  [][ /\ ( /\ last'.op = "trackEvent"
           /\ getUserAssignment(userAssignments, last'.test) = 0 )
         => ( /\ ~last'.threw
              /\ testEvents' = testEvents
              /\ userAssignments' = userAssignments
              /\ activeTests' = activeTests )
      /\ \A i \in 1..Len(testEvents') :
            \E j \in 1..Len(userAssignments') :
               /\ userAssignments'[j].testId = testEvents'[i].testId
               /\ userAssignments'[j].variantId = testEvents'[i].variantId ]_vars

\* An event of an experiment the user is not assigned to has just been dropped,
\* while the log holds an event of the experiment the user is assigned to.
C19_Witness ==
  /\ last.op = "trackEvent" /\ last.outcome = "dropped"
  /\ last.test \in DOMAIN activeTests
  /\ ActiveAssignments(last.test) = {}
  /\ Len(testEvents) = 1
  /\ Len(userAssignments) = 1

RolloutOps == {"startRollout", "pauseRollout", "resumeRollout", "rollbackRollout"}

TestOps == {"startTest", "stopTest"}

\* C20: startRollout, pauseRollout, resumeRollout and rollbackRollout called with
\* an id no plan has, and startTest and stopTest called with an id no experiment
\* has, throw and leave every plan, flag, experiment and assignment unchanged.
C20_UnknownIdThrows ==
  [][( \/ (last'.op \in RolloutOps /\ last'.id \notin DOMAIN activeRollouts)
       \/ (last'.op \in TestOps /\ last'.test \notin DOMAIN activeTests) )
     => ( /\ last'.threw
          /\ activeRollouts' = activeRollouts
          /\ featureFlags' = featureFlags
          /\ activeTests' = activeTests
          /\ userAssignments' = userAssignments )]_vars

\* stopTest has just thrown for an id no experiment has, on an engine that
\* holds a plan, a flag and an experiment.
C20_Witness ==
  /\ last.op = "stopTest" /\ last.threw
  /\ last.test \notin DOMAIN activeTests
  /\ activeTests # << >>
  /\ activeRollouts # << >>
  /\ featureFlags # << >>

\* C21: createTest called with variant weights that do not sum to 100 throws
\* and leaves the experiments on file as they were; so the weights of every
\* experiment the engine holds sum to 100.
C21_InvalidWeightsRejected ==
  /\ [](\A t \in DOMAIN activeTests : SumFrom(activeTests[t].weights, 1) = 100)
  /\ [][(last'.op = "createTest" /\ SumFrom(last'.testConfig.weights, 1) # 100)
          => (last'.threw /\ activeTests' = activeTests)]_vars

\* A configuration with weights 50 and 49 has just been refused by an engine
\* that holds an experiment.
C21_Witness ==
  /\ last.op = "createTest" /\ last.threw
  /\ last.testConfig.weights = <<50, 49>>
  /\ last.test \notin DOMAIN activeTests
  /\ DOMAIN activeTests # {}
  /\ \A t \in DOMAIN activeTests : SumFrom(activeTests[t].weights, 1) = 100

\* C22 (as claimed): createRolloutPlan refuses an empty phase list, so no plan
\* on file is without phases, and no startRollout ends in an error over a plan
\* without phases.
C22_EmptyPhasesRejected ==
  /\ \A p \in DOMAIN activeRollouts : Len(Plan(p).phases) > 0
  /\ ~( /\ last.op = "startRollout" /\ last.threw
        /\ last.id \in DOMAIN activeRollouts
        /\ Len(Plan(last.id).phases) = 0 )

\* An experiment with nothing to compare: fewer than two variants, or none
\* marked as the control.
NothingToCompare(test) == Len(test.weights) < 2 \/ test.control = 0

\* C23: stopTest on an experiment with fewer than two variants or without a
\* control variant does not throw, and the results it files are the neutral
\* verdict (pValue 1, zScore 0, not significant) with recommendation
\* inconclusive.
C23_NeutralResultWithoutComparison ==
  ( /\ last.op = "stopTest"
    /\ last.test \in DOMAIN activeTests
    /\ NothingToCompare(activeTests[last.test]) )
  => ( /\ ~last.threw
       /\ activeTests[last.test].results.significance = NeutralVerdict
       /\ activeTests[last.test].results.significance.pValue = "1"
       /\ activeTests[last.test].results.significance.zScore.sign = 0
       /\ ~activeTests[last.test].results.significance.significant
       /\ activeTests[last.test].results.recommendation = "inconclusive" )

\* An experiment whose only variant is the control was stopped with two
\* events of its user in the log.
C23_Witness ==
  /\ last.op = "stopTest" /\ ~last.threw
  /\ last.test \in DOMAIN activeTests
  /\ activeTests[last.test].weights = <<100>>
  /\ activeTests[last.test].control = 1
  /\ Len(testEvents) = 2
  /\ activeTests[last.test].results.metrics[1].averageValue > 0
  /\ activeTests[last.test].results.recommendation = "inconclusive"

\* e.eventValue || 1, summed over a list of event values.
SumOfValues(vs) == SumFrom([i \in 1..Len(vs) |-> IF vs[i] \in {NoValue, 0} THEN 1 ELSE vs[i]], 1)

\* The mean of list a exceeds the mean of list b (an empty list has mean 0).
MeanExceeds(a, b) ==
  IF Len(a) = 0 THEN FALSE
  ELSE IF Len(b) = 0 THEN SumOfValues(a) > 0
  ELSE SumOfValues(a) * Len(b) > SumOfValues(b) * Len(a)

\* C24: the recommendation of a results computation is inconclusive when the
\* test is not significant; when it is, winner if the mean of the treatment's
\* values exceeds the mean of the control's, and rollback if it does not.
C24_RecommendationFollowsVerdict ==
  last.op = "calculateResults" =>
     LET r == last.results
         c == last.testConfig.control
         t == testVariant(last.testConfig)
     IN r.recommendation =
          IF ~r.significance.significant THEN "inconclusive"
          ELSE IF MeanExceeds(last.values[t], last.values[c]) THEN "winner"
          ELSE "rollback"

\* A significant test whose treatment mean (5.5) exceeds the control's (1).
C24_Witness ==
  /\ last.op = "calculateResults"
  /\ last.values = << <<NoValue>>, <<5, 6>> >>
  /\ last.testConfig.control = 1
  /\ last.results.significance.significant
  /\ last.results.recommendation = "winner"

\* A significant test whose treatment mean does not exceed the control's.
C24_WitnessRollback ==
  /\ last.op = "calculateResults"
  /\ last.results.significance.significant
  /\ last.results.recommendation = "rollback"

\* C25: an evaluation of a flag does not throw; for a name no flag carries and
\* for a disabled flag isFeatureEnabled returns false and getFeatureVariant
\* null; and getFeatureVariant returns a variant id only when isFeatureEnabled
\* passes in that evaluation (same flag, user, context and roll).
C25_FlagEvaluationFailsClosed ==
  last.op \in {"isFeatureEnabled", "getFeatureVariant"} =>
     LET off == last.id \notin DOMAIN featureFlags \/ ~featureFlags[last.id].enabled
     IN /\ ~last.threw
        /\ (off /\ last.op = "isFeatureEnabled") => last.outcome = "false"
        /\ (off /\ last.op = "getFeatureVariant") => last.outcome = "null"
        /\ (last.op = "getFeatureVariant" /\ last.outcome # "null")
              => isFeatureEnabled(featureFlags, userId, last.id, last.userContext, last.roll)

\* getFeatureVariant has just returned null for a disabled flag that has
\* variants and a rollout percentage of 100.
C25_Witness ==
  /\ last.op = "getFeatureVariant" /\ last.outcome = "null"
  /\ last.id \in DOMAIN featureFlags
  /\ ~featureFlags[last.id].enabled
  /\ featureFlags[last.id].hasVariants
  /\ featureFlags[last.id].rolloutPercentage = 100

\* getFeatureVariant has just returned a variant of a flag at 50 % on a roll
\* of 40.
C25_WitnessVariant ==
  /\ last.op = "getFeatureVariant" /\ last.outcome \in {"a", "b"}
  /\ featureFlags[last.id].rolloutPercentage = 50
  /\ last.roll = 40

\* The count is within five percent of the population of the weight's share.
WithinFive(count, weight) ==
  /\ 100 * count >= (weight - 5) * Population
  /\ 100 * count <= (weight + 5) * Population

\* Over the whole population every variant's share of the users is within
\* five percent of its weight (45 to 55 percent for weights 50 and 50).
SharesMatchWeights ==
  tally.n = Population
     => \A k \in 1..Len(tally.weights) : WithinFive(tally.counts[k], tally.weights[k])

\* No user is assigned to a variant of weight 0.
ZeroWeightGetsNoUser ==
  \A k \in 1..Len(tally.weights) : tally.weights[k] = 0 => tally.counts[k] = 0

\* C26 (as claimed): over 10,000 distinct user ids the deterministic walk gives
\* every variant a share of the users within five percent of its weight, 45
\* to 55 percent for weights 50 and 50, and a variant of weight 0 no user.
C26_WeightsAreConserved == SharesMatchWeights /\ ZeroWeightGetsNoUser

\* A critical rollback condition of the plan is breached by the snapshot.
CriticalBreach(plan, m) ==
  \E k \in 1..Len(plan.rollbackConditions) :
     /\ plan.rollbackConditions[k].severity = "critical"
     /\ evaluateRollbackCondition(plan.rollbackConditions[k], m)

\* C27: an evaluation of the current phase of an active plan ends in one of
\* three ways, decided by the snapshot m it fetched: if m meets the phase's
\* criteria the plan is in the next phase at that phase's percentage (or
\* completed, after the last); otherwise, if m breaches a critical rollback
\* condition, the plan is rolled_back; otherwise it is paused in the same
\* phase at the same percentage.
C27_EvaluationHasThreeOutcomes ==
  [][\A p \in DOMAIN activeRollouts :
        ( /\ last'.op = "evaluatePhaseTransition" /\ last'.id = p
          /\ Plan(p).status = "active"
          /\ Plan(p).currentPhase = last'.phase )
        => LET new == activeRollouts'[p]
               i == last'.phase
               m == last'.m
           IN IF evaluatePhaseCriteria(Plan(p).phases[i + 1].criteria, m)
              THEN IF i + 1 < Len(Plan(p).phases)
                   THEN /\ new.status = "active"
                        /\ new.currentPhase = i + 1
                        /\ new.currentPercentage = Plan(p).phases[i + 2].percentage
                   ELSE new.status = "completed"
              ELSE IF CriticalBreach(Plan(p), m)
              THEN new.status = "rolled_back"
              ELSE /\ new.status = "paused"
                   /\ new.currentPhase = Plan(p).currentPhase
                   /\ new.currentPercentage = Plan(p).currentPercentage]_vars

\* An evaluation of phase 0 whose snapshot missed the criteria and breached no
\* critical condition has just paused the plan at 10 %.
C27_Witness ==
  /\ last.op = "evaluatePhaseTransition" /\ last.phase = 0
  /\ last.m.successRate = 900 /\ last.m.errorRate = 10
  /\ Plan(last.id).status = "paused"
  /\ Plan(last.id).currentPhase = 0
  /\ Plan(last.id).currentPercentage = 10
  /\ Len(Plan(last.id).phaseTransitions) = 1

\* An evaluation whose snapshot missed the criteria and breached a critical
\* condition has just rolled the plan back.
C27_WitnessRollback ==
  /\ last.op = "evaluatePhaseTransition"
  /\ last.m.errorRate = 100
  /\ Plan(last.id).status = "rolled_back"
  /\ Plan(last.id).rollbacksTriggered = 1

\* C28: a poll of the safety monitor on an active plan whose snapshot breaches
\* no rollback condition of severity critical (only warning ones, or none)
\* leaves the plan active and the flags unchanged.
C28_MonitorRollsBackOnlyOnCritical ==
  [][\A p \in DOMAIN activeRollouts :
        ( /\ last'.op = "checkActiveRollouts" /\ last'.outcome = "resumed"
          /\ last'.id = p
          /\ Plan(p).status = "active"
          /\ ~CriticalBreach(Plan(p), last'.m) )
        => /\ activeRollouts'[p].status = "active"
           /\ featureFlags' = featureFlags]_vars

C31_PauseResumeChangeOnlyStatus ==
  [][\A p \in PlanIds :
        ( /\ last'.op \in {"pauseRollout", "resumeRollout"} /\ last'.id = p )
        => /\ featureFlags' = featureFlags
           /\ activeTests' = activeTests
           /\ IF p \in DOMAIN activeRollouts
              THEN activeRollouts' =
                     [activeRollouts EXCEPT ![p].status =
                        IF last'.op = "pauseRollout" THEN "paused" ELSE "active"]
              ELSE activeRollouts' = activeRollouts]_vars

\* pauseRollout has just paused a plan that is in phase 1 at 25 %, with its
\* flag at 25 %.
C31_Witness ==
  /\ last.op = "pauseRollout" /\ ~last.threw
  /\ Plan(last.id).status = "paused"
  /\ Plan(last.id).currentPhase = 1
  /\ Plan(last.id).currentPercentage = 25
  /\ Len(Plan(last.id).phaseTransitions) = 2
  /\ Flag(last.id).enabled /\ Flag(last.id).rolloutPercentage = 25

\* The experiments on file in tests that carry the weights of the mirror of a
\* plan whose phase 0 is at pct percent, with the given status.
Mirrors(tests, pct, status) ==
  {t \in DOMAIN tests :
     tests[t].weights = <<100 - pct, pct>> /\ tests[t].status = status}

\* C32 (as claimed): once startRollout has run for a plan with phases, an
\* experiment with control weight 100 - p and treatment weight p (p the
\* percentage of phase 0) is on file with status active; once rollbackRollout
\* has run for a started plan, such an experiment is on file with status
\* completed and none is active.
C32_MirrorFollowsPlan ==
  [][\A p \in DOMAIN activeRollouts :
        Len(Plan(p).phases) > 0 =>
          LET pct == Plan(p).phases[1].percentage IN
          /\ (last'.op = "startRollout" /\ last'.id = p)
                => Mirrors(activeTests', pct, "active") # {}
          /\ ( /\ last'.op = "rollbackRollout" /\ last'.id = p
               /\ Mirrors(activeTests, pct, "draft") \cup Mirrors(activeTests, pct, "active") # {} )
                => /\ Mirrors(activeTests', pct, "completed") # {}
                   /\ Mirrors(activeTests', pct, "active") = {}]_vars

\* C33 (as claimed): a run of checkSafeguards on an experiment whose status
\* is completed leaves the status completed.
C33_CompletedIsFinalForMonitor ==
  [][\A t \in DOMAIN activeTests :
        ( /\ activeTests[t].status = "completed"
          /\ last'.op = "checkSafeguards" /\ last'.test = t )
        => activeTests'[t].status = "completed"]_vars

\* C34 (as claimed): once rollbackRollout has run for a plan whose record in
\* the store has status active or paused (a record an engine constructed over
\* the store would load), whether the call returned or threw, the record has
\* status rolled_back.
C34_RollbackIsPersisted ==
  [][\A p \in DOMAIN activeRollouts :
        ( /\ last'.op = "rollbackRollout" /\ last'.id = p
          /\ p \in DOMAIN stored
          /\ stored[p] \in {"active", "paused"} )
        => stored'[p] = "rolled_back"]_vars

\* The variants other than the control whose mean no other such variant exceeds.
BestTreatments(testConfig, metrics) ==
  LET others == {k \in 1..Len(testConfig.weights) : k # testConfig.control}
  IN {b \in others : \A j \in others : metrics[j].averageValue <= metrics[b].averageValue}

C36_SingleBreachDoesNotRollBack ==
  [][\A p \in DOMAIN activeRollouts :
        ( /\ last'.op = "checkActiveRollouts" /\ last'.outcome = "resumed"
          /\ last'.id = p
          /\ Plan(p).status = "active"
          /\ Plan(p).rollbacksTriggered = 0
          /\ \E k \in 1..Len(Plan(p).rollbackConditions) :
                /\ Plan(p).rollbackConditions[k].duration > 0
                /\ evaluateRollbackCondition(Plan(p).rollbackConditions[k], last'.m) )
        => /\ activeRollouts'[p].status = "active"
           /\ activeRollouts'[p].rollbacksTriggered = 0]_vars

\* C37: isFeatureEnabled answers true only if every gate passes: the flag exists
\* and is enabled, the roll does not exceed rolloutPercentage, the user is in one
\* of the flag's target audiences when it has any, and each condition holds by
\* its operator on the attribute's value, which is the caller's where the caller
\* gives the attribute and the base context's otherwise.
C37_Value(userContext, a) ==
  IF a \in DOMAIN userContext THEN userContext[a]
  ELSE IF a = "userId" THEN Str(userId)
  ELSE IF a = "platform" THEN Str("web")
  ELSE IF a = "version" THEN Str("2.0.0")
  ELSE IF a = "locale" THEN Str("en-US")
  ELSE Undefined

C37_Holds(c, v) ==
  \/ c.operator = "eq" /\ v = c.value
  \/ c.operator = "ne" /\ v # c.value
  \/ c.operator = "in" /\ c.value.type = "array" /\ v \in c.value.items
  \/ c.operator = "not_in" /\ c.value.type = "array" /\ v \notin c.value.items
  \/ c.operator = "gt" /\ v.type = "number" /\ v.n > c.value.n
  \/ c.operator = "lt" /\ v.type = "number" /\ v.n < c.value.n

C37_AllGatesPass(f, userContext, roll) ==
  /\ f \in DOMAIN featureFlags
  /\ featureFlags[f].enabled
  /\ roll <= featureFlags[f].rolloutPercentage
  /\ Len(featureFlags[f].targetAudiences) > 0
        => \E k \in 1..Len(featureFlags[f].targetAudiences) :
              featureFlags[f].targetAudiences[k] \in {"beta", "desktop"}
  /\ \A k \in 1..Len(featureFlags[f].conditions) :
        C37_Holds(featureFlags[f].conditions[k],
                  C37_Value(userContext, featureFlags[f].conditions[k].attribute))

C37_EnabledOnlyIfAllGatesPass ==
  [][(last'.op = "isFeatureEnabled" /\ last'.outcome = "true")
       => C37_AllGatesPass(last'.id, last'.userContext, last'.roll)]_vars

\* A flag with a target audience and three conditions (ne, not_in, lt) was
\* found enabled for a caller whose override supplies the numeric attribute.
C37_Witness ==
  /\ last.op = "isFeatureEnabled"
  /\ last.outcome = "true"
  /\ last.id \in DOMAIN featureFlags
  /\ Len(featureFlags[last.id].targetAudiences) > 0
  /\ Len(featureFlags[last.id].conditions) = 3
  /\ "level" \in DOMAIN last.userContext

\* C38: under the gradual strategy the exposure at hoursElapsed is
\* min(initial + floor(hoursElapsed / interval) * increment, max); a fresh
\* assignment whose roll is above it gets the variant marked as control, one
\* whose roll is at or below it gets the variant of the random weighted pick;
\* the exposure is at most max and no lower than at any earlier hour.
C38_Exposure(g, hours) ==
  LET steps == hours \div g.incrementInterval
      ramp == g.initialPercentage + steps * g.incrementPercentage
  IN IF ramp < g.maxPercentage THEN ramp ELSE g.maxPercentage

C38_Fresh(t) ==
  /\ last'.op = "getAssignment" /\ last'.test = t
  /\ t \in DOMAIN activeTests
  /\ activeTests[t].status = "active"
  /\ activeTests[t].allocation.type = "gradual"
  /\ ~last'.cached

C38_GradualExposure ==
  [][\A t \in DOMAIN activeTests :
        C38_Fresh(t) =>
          LET test == activeTests[t]
              g == test.allocation.gradualRollout
              d == last'.d
          IN /\ rampPercentage(g, d.hours) = C38_Exposure(g, d.hours)
             /\ d.gradual > C38_Exposure(g, d.hours)
                   => last'.outcome = VariantIds[test.control]
             /\ d.gradual <= C38_Exposure(g, d.hours)
                   => last'.outcome = randomAssignment(test.weights, d.pick)
             /\ rampPercentage(g, d.hours) <= g.maxPercentage
             /\ \A h \in GradualHours :
                   h <= d.hours => rampPercentage(g, h) <= rampPercentage(g, d.hours)]_vars

\* A fresh assignment at hour 240 of the 10 + 10 per 24 h ramp, whose uncapped
\* value is 110, with a roll of 90: within the capped exposure of 100, so the
\* random pick decided.
C38_Witness ==
  /\ last.op = "getAssignment"
  /\ ~last.cached
  /\ last.outcome = "treatment"
  /\ last.d.hours = 240 /\ last.d.gradual = 90 /\ last.d.pick = 90
  /\ last.test \in DOMAIN activeTests
  /\ activeTests[last.test].allocation.gradualRollout.maxPercentage = 100

\* A fresh assignment whose roll was above the exposure and that got the
\* control variant, which is not the first of the variant table.
C38_WitnessControl ==
  /\ last.op = "getAssignment"
  /\ ~last.cached
  /\ last.test \in DOMAIN activeTests
  /\ activeTests[last.test].control = 2
  /\ last.d.gradual = 90 /\ last.d.pick = 0
  /\ last.outcome = VariantIds[2]

\* C39: the event log only grows at its end: in every step each event of the
\* log stays at its place with its user, experiment, variant, type and value,
\* and the log does not get shorter, whatever the step does (track, stop,
\* start, the safeguard monitor's rollback).
C39_LogIsAppendOnly ==
  [][/\ Len(testEvents') >= Len(testEvents)
     /\ \A i \in 1..Len(testEvents) :
           /\ testEvents'[i].userId = testEvents[i].userId
           /\ testEvents'[i].testId = testEvents[i].testId
           /\ testEvents'[i].variantId = testEvents[i].variantId
           /\ testEvents'[i].eventType = testEvents[i].eventType
           /\ testEvents'[i].eventValue = testEvents[i].eventValue]_vars

\* The experiment whose events fill the log has just been stopped.
C39_Witness ==
  /\ last.op = "stopTest" /\ ~last.threw
  /\ Len(testEvents) = MaxEvents
  /\ testEvents[1].testId = last.test
  /\ activeTests[last.test].status = "completed"

\* The safeguard monitor has just rolled back (paused) the experiment whose
\* events are in the log.
C39_WitnessRolledBack ==
  /\ last.op = "checkSafeguards" /\ last.outcome = "resumed"
  /\ Len(testEvents) > 0
  /\ testEvents[1].testId = last.test
  /\ activeTests[last.test].status = "paused"

\* C40: the cohort hash of identity + salt is a non-negative value of at most
\* 2^31 and its bucket, in hundredths of a percent, lies in 0..9999, that is in
\* [0, 100) percent, also when the 32-bit accumulator ends at -2^31; a call
\* with the input of the call before it yields the bucket of the call before it.
C40_BucketInRangeAndStable ==
  [][last'.op = "simpleHash" =>
       /\ last'.hash[1] \in 0..32768 /\ last'.hash[2] \in 0..65535
       /\ last'.hash[1] = 32768 => last'.hash[2] = 0
       /\ last'.bucket \in 0..9999
       /\ (last.op = "simpleHash" /\ last.input = last'.input)
             => last'.bucket = last.bucket /\ last'.hash = last.hash]_vars

\* The hash of 'GydZG_' with no seed: the accumulator ended at -2^31 (high
\* limb 32768, low limb 0) and the bucket is 36.48.
C40_Witness ==
  /\ last.op = "simpleHash"
  /\ last.input = MinIntId
  /\ last.acc = <<32768, 0>>
  /\ last.bucket = 3648

\* The same input hashed twice in a row.
C40_WitnessRepeated ==
  /\ last.op = "simpleHash"
  /\ last.n = 2
  /\ last.input = <<101, 118, 101>>
  /\ last.bucket = 820

=============================================================================
